---- MODULE Spec2Model ----
(***************************************************************************)
(* Model of the block extractor of Caselistscrapper.py (extract_blocks and *)
(* the helpers it calls).                                                  *)
(*                                                                         *)
(* Text is a sequence of tokens.  A token is a lexeme the regular          *)
(* expressions of the source tell apart: a word, a speech label, one       *)
(* space, one hyphen, one colon, a two-digit year.  Two word tokens next   *)
(* to each other are glued (no space between them).  Python's None and     *)
(* the empty string are both the empty sequence: the source only tests     *)
(* their truth value.                                                      *)
(***************************************************************************)
EXTENDS Integers, Sequences, FiniteSets, TLC

\* ------------------------------------------------------------- bounds
\* The longest document (number of paragraphs) the walk reads.
MaxParas == 5

\* The most source records a batch has.
MaxMetas == 3

\* The longest block list group_by_argument is given.
MaxBlocks == 5
MaxRuns == 2
MaxBuildBlocks == 2
MaxRounds == 3
MaxRetries == 3

\* ---------------------------------------------------- program constants
SZ_READ == 11
SZ_CONTEXT == 11
SZ_FILLER == 8

SP == " "
HY == "-"
COLON == ":"
None == <<>>

\* ------------------------------------------------------------ strings
\* The token at position i, "" past either end.
At(s, i) == IF i \in 1..Len(s) THEN s[i] ELSE ""

From(s, i) == SubSeq(s, i, Len(s))

\* First position >= i whose token is not in S (Len(s) + 1 when there is none).
SkipIn(s, i, S) ==
    IF i > Len(s) THEN i
    ELSE CHOOSE j \in i..(Len(s) + 1) :
            /\ \A k \in i..(j - 1) : s[k] \in S
            /\ (j = Len(s) + 1 \/ s[j] \notin S)

SkipSp(s, i) == SkipIn(s, i, {SP})

\* str.lstrip(), str.rstrip(), str.strip()
LStrip(s) == From(s, SkipSp(s, 1))

\* s without its trailing tokens in S.
RStripIn(s, S) ==
    SubSeq(s, 1, CHOOSE j \in 0..Len(s) :
                    /\ \A k \in (j + 1)..Len(s) : s[k] \in S
                    /\ (j = 0 \/ s[j] \notin S))

RStrip(s) == RStripIn(s, {SP})

Strip(s) == RStrip(LStrip(s))

\* re.IGNORECASE: the upper-case form of a token.
Upper(t) ==
    CASE t = "Defense" -> "DEFENSE"
      [] t = "Extensions" -> "EXTENSIONS"
      [] t = "Extension" -> "EXTENSION"
      [] t = "Extra" -> "EXTRA"
      [] t = "Topshelf" -> "TOPSHELF"
      [] t = "Add" -> "ADD"
      [] t = "On" -> "ON"
      [] t = "Answers" -> "ANSWERS"
      [] t = "to" -> "TO"
      [] t = "Blocks" -> "BLOCKS"
      [] t = "Rebuttal" -> "REBUTTAL"
      [] OTHER -> t

UAt(s, i) == Upper(At(s, i))

\* The dash characters of the source's character classes.
Dashes == {HY, "ENDASH", "EMDASH"}

SpeechLabels == {"2AC", "2NC", "1AR", "2AR", "1NR"}

\* _REBUTTAL_SPEECH_RE.match(s): the position after the match, 0 for no match.
RebuttalEnd(s) ==
    LET h == UAt(s, 1)
        j == SkipSp(s, 2)
    IN  IF h \in SpeechLabels \cup {"REBUTTAL", "BLOCK", "BLOCKS"} THEN 2
        ELSE IF h \in {"NEG", "AFF"} /\ UAt(s, j) \in {"BLOCK", "BLOCKS"} THEN j + 1
        ELSE IF h \in {"ANSWER", "ANSWERS"} /\ j > 2 /\ UAt(s, j) = "TO" THEN j + 1
        ELSE IF h = "OFF" /\ UAt(s, j) = "CASE" THEN j + 1
        ELSE 0

RebuttalMatch(s) == RebuttalEnd(s) > 0

\* _REBUTTAL_SPEECH_RE.fullmatch(s): the label alone.  "NEG BLOCKS" is no full
\* match: the S follows the match of NEG\s*BLOCK.
RebuttalFullMatch(s) ==
    /\ RebuttalEnd(s) = Len(s) + 1
    /\ ~(UAt(s, 1) \in {"NEG", "AFF"} /\ UAt(s, Len(s)) = "BLOCKS")

\* _CONSTRUCTIVE_SPEECH_RE.match(s): 1AC or 1NC, then a space, a hyphen or the end.
ConstructiveMatch(s) ==
    /\ UAt(s, 1) \in {"1AC", "1NC"}
    /\ (Len(s) = 1 \/ At(s, 2) \in {SP, HY})

\* _DEFENSE_SECTION_RE.match(s)
DefenseMatch(s) == UAt(s, 1) \in {"DEFENSE", "EXTENSION", "EXTENSIONS"}

ATWords == {"AT", "A2", "A/2"}

\* _AT_PREFIX_RE.match(s): the position after the match, 0 for no match.
\* First alternative: AT: / A2: / A/2: / Answers to:, the colon or hyphen needed.
\* Second: a speech label, dashes or colons, AT / A2 / A/2, the colon optional.
ATPrefixEnd(s) ==
    LET h == UAt(s, 1)
        j == SkipSp(s, 2)
        \* ANS(?:WER)?S?(?:\s+TO)?
        a == IF h \in {"ANS", "ANSS", "ANSWER", "ANSWERS"} /\ j > 2 /\ UAt(s, j) = "TO"
             THEN SkipSp(s, j + 1) ELSE j
        k == SkipIn(s, j, {HY, "EMDASH", COLON})
        m == SkipSp(s, k)
        n == SkipSp(s, m + 1)
    IN  IF h \in ATWords \cup {"ANS", "ANSS", "ANSWER", "ANSWERS"}
        THEN IF At(s, a) \in {COLON, HY} THEN SkipSp(s, a + 1) ELSE 0
        ELSE IF h \in SpeechLabels /\ k > j /\ UAt(s, m) \in ATWords
        THEN IF At(s, n) \in {COLON, HY} THEN SkipSp(s, n + 1) ELSE n
        ELSE 0

\* _A2_NOCOLON_RE.match(s): A/2 or A2, spaces, then a non-space (not consumed).
A2NoColonEnd(s) ==
    LET j == SkipSp(s, 2)
    IN  IF UAt(s, 1) \in {"A/2", "A2"} /\ j > 2 /\ j <= Len(s) THEN j ELSE 0

\* The labels _TAIL_JUNK_RE looks for after dashes.
JunkAt(s, i) ==
    \/ UAt(s, i) \in SpeechLabels \cup {"EXTRA", "TOPSHELF", "ADDON"}
    \/ UAt(s, i) = "ADD" /\ UAt(s, SkipSp(s, i + 1)) = "ON"

\* Whether _TAIL_JUNK_RE matches starting at position p.
JunkFrom(s, p) ==
    LET q == SkipSp(s, p)
        r == SkipIn(s, q, Dashes)
    IN  r > q /\ JunkAt(s, SkipSp(s, r))

\* _TAIL_JUNK_RE.sub("", s): s up to the leftmost match (the match runs to the end).
TailJunkSub(s) ==
    LET starts == {p \in 1..Len(s) : JunkFrom(s, p)}
    IN  IF starts = {} THEN s
        ELSE SubSeq(s, 1, (CHOOSE p \in starts : \A q \in starts : p <= q) - 1)

\* _try_get_block_name(text): the argument name, None when there is none.
TryGetBlockName(text) ==
    IF ATPrefixEnd(text) > 0
    THEN Strip(RStripIn(Strip(TailJunkSub(Strip(From(text, ATPrefixEnd(text))))),
                        Dashes \cup {SP}))
    ELSE IF A2NoColonEnd(text) > 0
    THEN Strip(TailJunkSub(Strip(From(text, A2NoColonEnd(text)))))
    ELSE None

\* ---------------------------------------------------------- rendering
\* _xml_escape(text), token by token.
EscapeTok(t) ==
    CASE t = "&" -> "&amp;"
      [] t = "<" -> "&lt;"
      [] t = ">" -> "&gt;"
      [] t = "\"" -> "&quot;"
      [] t = "&amp;" -> "&amp;amp;"
      [] t = "&lt;" -> "&amp;lt;"
      [] t = "&gt;" -> "&amp;gt;"
      [] t = "&quot;" -> "&amp;quot;"
      [] OTHER -> t

_xml_escape(text) == [i \in 1..Len(text) |-> EscapeTok(text[i])]

\* Token classes of _CITE_TAG_RE: capitalised words, other words, two-digit years.
CapWordToks == {"Donnelly", "Hendricks", "Econ", "States", "Defense", "Extra", "Link", "AT"}
LowerWordToks == {"argues", "grows", "et", "al", "and"}
TwoDigitToks == {"21", "23"}
WordCharToks == CapWordToks \cup LowerWordToks \cup TwoDigitToks \cup {"2AC", "2NC", "1AC", "A2"}

\* _CITE_TAG_RE.match(s).end(1): the number of tokens of the citation tag
\* "Lastname YY" at the start of s, 0 for no match.
CiteEnd(s) ==
    LET i == SkipIn(s, 2, CapWordToks \cup LowerWordToks \cup {HY})
        j == SkipSp(s, i)
        etal == j > i /\ At(s, j) = "et" /\ SkipSp(s, j + 1) > j + 1
                      /\ At(s, SkipSp(s, j + 1)) = "al"
        andx == j > i /\ At(s, j) = "and" /\ SkipSp(s, j + 1) > j + 1
                      /\ At(s, SkipSp(s, j + 1)) \in CapWordToks
        al == SkipSp(s, j + 1) + 1
        g == IF etal
             THEN (IF At(s, al) = "." THEN al + 1 ELSE al)
             ELSE IF andx
             THEN SkipIn(s, SkipSp(s, j + 1) + 1, CapWordToks \cup LowerWordToks \cup {HY})
             ELSE i
        k == SkipSp(s, g)
    IN  IF /\ At(s, 1) \in CapWordToks
           /\ k > g
           /\ At(s, k) \in TwoDigitToks
           /\ At(s, k + 1) \notin WordCharToks
        THEN k
        ELSE 0

\* bool(run.bold), bool(run.underline): None (unset) counts as False.
Bool(v) == v = "True"

\* _HIGHLIGHT_COLORS.get(str(h).split()[0]): the background of a highlight
\* colour, None for no highlight and for a colour the map does not hold.
HighlightBg(h) ==
    IF h \in {"YELLOW", "TURQUOISE", "BRIGHT_GREEN", "PINK", "RED", "BLUE", "TEAL",
              "VIOLET", "DARK_YELLOW", "GREEN"}
    THEN "#cce8ff"
    ELSE "None"

\* _format_run_fragment: the span as a record of what the markup string holds.
_format_run_fragment(text, bold, underline, highlight_bg, size) ==
    [text |-> _xml_escape(text), bold |-> bold, underline |-> underline,
     bg |-> highlight_bg, size |-> size,
     font |-> IF bold THEN "FONT_BOLD" ELSE "FONT_NORMAL"]

Min(a, b) == IF a < b THEN a ELSE b

\* _run_tier(run): the tier by bold and underline alone.
_run_tier(run) ==
    IF Bool(run.bold) /\ Bool(run.underline) THEN "read"
    ELSE IF Bool(run.underline) THEN "context"
    ELSE "filler"

\* The loop body without the split: a run that starts inside the citation
\* tag is rendered as the tag as a whole.
RunPartsNoSplit(run, char_pos, cite_end) ==
    LET t == run.text
        bold == Bool(run.bold)
        underline == Bool(run.underline)
        hl_bg == HighlightBg(run.hl)
        sz == IF underline \/ hl_bg # "None" THEN SZ_READ ELSE SZ_FILLER
    IN  IF t = <<>> THEN <<>>
        ELSE IF cite_end > 0 /\ char_pos < cite_end
        THEN <<_format_run_fragment(t, TRUE, FALSE, hl_bg, SZ_READ)>>
        ELSE <<_format_run_fragment(t, bold, underline, hl_bg, sz)>>

\* The fragments of one run that starts at character position char_pos.
RunParts(run, char_pos, cite_end) ==
    LET t == run.text
        bold == Bool(run.bold)
        underline == Bool(run.underline)
        hl_bg == HighlightBg(run.hl)
        sz == IF underline \/ hl_bg # "None" THEN SZ_READ ELSE SZ_FILLER
        split == Min(cite_end - char_pos, Len(t))
        prefix_text == SubSeq(t, 1, split)
        rest_text == From(t, split + 1)
    IN  IF t = <<>> THEN <<>>
        ELSE IF cite_end > 0 /\ char_pos < cite_end
        THEN (IF prefix_text # <<>>
              THEN <<_format_run_fragment(prefix_text, TRUE, FALSE, hl_bg, SZ_READ)>>
              ELSE <<>>)
             \o
             (IF rest_text # <<>>
              THEN <<_format_run_fragment(rest_text, bold, underline, hl_bg, sz)>>
              ELSE <<>>)
        ELSE <<_format_run_fragment(t, bold, underline, hl_bg, sz)>>

\* The loop over para.runs: parts after the first i runs, char_pos before run i.
RunsToRich(runs, cite_end) ==
    LET char_pos[i \in 1..(Len(runs) + 1)] ==
            IF i = 1 THEN 0 ELSE char_pos[i - 1] + Len(runs[i - 1].text)
        parts[i \in 0..Len(runs)] ==
            IF i = 0 THEN <<>>
            ELSE parts[i - 1] \o RunParts(runs[i], char_pos[i], cite_end)
    IN  parts[Len(runs)]

\* _para_to_rich(para): the rendered line, a sequence of fragments.
_para_to_rich(para) ==
    LET full_text == para.text
        cite_m == CiteEnd(LStrip(full_text))
        leading_ws == Len(full_text) - Len(LStrip(full_text))
        cite_end == IF cite_m > 0 THEN leading_ws + cite_m ELSE 0
    IN  RunsToRich(para.runs, cite_end)

\* rich.strip() is a non-empty string: every fragment's markup starts with
\* "<font", so the line is empty only when no run contributed a fragment.
RichNonEmpty(rich) == rich # <<>>

\* A line of a block: a card tag (the level-4 heading text, escaped, in the
\* size-10 bold markup) or a body line (the rendered fragments).
TagLine(text) == [kind |-> "tag", text |-> _xml_escape(text), frags |-> <<>>]
BodyLine(rich) == [kind |-> "body", text |-> <<>>, frags |-> rich]

\* _section_transition without the priority of the AT: patterns.
SectionTransitionNoPriority(text) ==
    IF DefenseMatch(text) THEN "defense"
    ELSE IF RebuttalMatch(text) THEN "rebuttal"
    ELSE IF ConstructiveMatch(text) THEN "constructive"
    ELSE "none"

\* extract_blocks._section_transition(text)
_section_transition(text) ==
    IF ATPrefixEnd(text) > 0 \/ A2NoColonEnd(text) > 0 THEN "none"
    ELSE IF DefenseMatch(text) THEN "defense"
    ELSE IF RebuttalMatch(text) THEN "rebuttal"
    ELSE IF ConstructiveMatch(text) THEN "constructive"
    ELSE "none"

\* ----------------------------------------------------------- documents
\* A paragraph: its heading level (0 for a body paragraph, _heading_level's
\* None), para.text and para.runs.
PlainRun(t) == [text |-> t, bold |-> "None", underline |-> "None", hl |-> "None"]

Heading(l, t) == [level |-> l, text |-> t, runs |-> <<PlainRun(t)>>]

Body(t, runs) == [level |-> 0, text |-> t, runs |-> runs]

HeadingLevels == {1, 2, 3, 4}

HeadingTexts ==
    { <<"2NC">>,                                          \* rebuttal label
      <<"1AC">>,                                          \* constructive label
      <<"Defense">>,                                      \* defense section
      <<"AT", COLON, SP, "Econ">>,                        \* block name
      <<"2AC", HY, HY, HY, "AT", COLON, SP, "States">>,   \* speech label + AT:
      <<"AT", COLON>>,                                    \* prefix, no name
      <<"States", SP, HY, SP, "Extra">> }                 \* no prefix, tail junk

BodyParagraphs ==
    { Body(<<"2NC">>, <<PlainRun(<<"2NC">>)>>),
      Body(<<"1AC">>, <<PlainRun(<<"1AC">>)>>),
      Body(<<"AT", COLON, SP, "Econ">>, <<PlainRun(<<"AT", COLON, SP, "Econ">>)>>),
      Body(<<"AT", COLON>>, <<PlainRun(<<"AT", COLON>>)>>),
      \* a card: the citation tag ends inside the second run
      Body(<<"Donnelly", SP, "23", SP, "argues">>,
           << PlainRun(<<"Donnelly", SP>>),
              [text |-> <<"23", SP, "argues">>, bold |-> "None",
               underline |-> "True", hl |-> "YELLOW"] >>),
      \* text that no run holds (a hyperlink): rendered empty
      Body(<<"Link">>, <<>>),
      \* a blank paragraph
      Body(<<SP>>, <<PlainRun(<<SP>>)>>) }

\* A heading of a level no branch of the walk takes (so are 1 and 6).
DeepHeadings == {Heading(5, <<"States", SP, HY, SP, "Extra">>)}

Paragraphs ==
    {Heading(l, t) : l \in HeadingLevels, t \in HeadingTexts} \cup DeepHeadings
        \cup BodyParagraphs

NoPara == Body(<<>>, <<>>)

\* The source record the blocks of the document are attributed to.
source_meta == [opensource |-> <<"round", 1>>, side |-> "A",
                tournament |-> <<"2025", HY, "Harvard">>]

\* The name a heading gives a block in defense mode.
DefenseName(text) == Strip(RStripIn(Strip(TailJunkSub(text)), Dashes \cup {SP}))

\* text = para.text.strip()
Text(p) == Strip(p.text)

\* The transition a heading triggers; a body paragraph is not asked.
Transition(p) == IF p.level # 0 THEN _section_transition(Text(p)) ELSE "none"

\* The flat-file speech label a body paragraph is: the rebuttal labels by
\* fullmatch first, then the constructive ones by match.
FlatLabel(p) ==
    IF p.level # 0 THEN "none"
    ELSE IF RebuttalFullMatch(Text(p)) THEN "rebuttal"
    ELSE IF ConstructiveMatch(Text(p)) THEN "constructive"
    ELSE "none"

\* ------------------------------------------------------------- state
VARIABLES
    blocks,         \* extract_blocks: the output list
    in_rebuttal,    \* inside a rebuttal speech / defense section
    in_defense,     \* inside a Defense/Extensions section
    current_name,   \* name of the open block, None when no block is open
    current_lines,  \* lines accumulated for the open block
    pc,             \* "walk" inside the loop over doc.paragraphs, "done" after return
    idx,            \* number of paragraphs read so far
    last_para,      \* history: the paragraph read last
    sawMarker,      \* history: a rebuttal or defense marker was read
    lastSignal      \* history: the most recent section signal

\* main: the batch loop over the source records
VARIABLES
    all_metas,         \* the source records to process
    meta_i,            \* number of records the loop has taken
    all_blocks,        \* the accumulated blocks
    failed,            \* count of failed downloads
    tournaments_seen,  \* tournaments of the downloaded records
    main_pc,           \* "loop", then "returned" or "split", "build", "built"
    fetched,           \* history: what download_file returned for each record
    aff_blocks,        \* blocks of the rounds the team ran on the affirmative
    neg_blocks,        \* blocks of the rounds the team ran on the negative
    unk_blocks,        \* blocks whose round has no side
    aff_labels,        \* build_pdf: the side word of each block's attribution line
    neg_labels         \* the same for the second file

\* group_by_argument
VARIABLES
    grp_in,      \* the argument all_blocks
    raw,         \* name -> blocks, in insertion order
    keys,        \* the names, longest first
    key_i,       \* number of names placed
    canonical,   \* canonical name -> blocks, in insertion order
    grp_pc,      \* "raw", "place", "sort", "done", then "again"
    grouped,     \* the mapping returned
    last_merge,  \* history: the last placement (kind, entry met, bucket)
    alt_in,      \* a second argument: grp_in shuffled, or grouped flattened
    alt_out      \* the mapping returned for alt_in

\* _para_to_rich on one paragraph
VARIABLES
    rnd_para,    \* the paragraph
    rnd_rich,    \* the fragments returned
    rnd_pc       \* "call", then "done"

\* build_pdf: the loop over the groups, their blocks and their lines
VARIABLES
    bld_in,      \* the argument grouped, in order
    bld_story,   \* the paragraphs emitted so far
    bld_pos,     \* <<group, block, line>> the loops are at
    bld_pc,      \* "heading", "source", "line", then "done"
    bld_trace    \* history: for each emitted paragraph, where it came from

\* dedup_rounds
VARIABLES
    rounds_in,   \* the argument rounds
    round_i,     \* number of rounds the loop has looked at
    seen,        \* the rounds kept, in insertion order
    dedup_pc     \* "loop", then "done"

\* api_get
VARIABLES
    api_retries, \* the argument retries
    api_attempt, \* the loop variable attempt
    api_pc,      \* "loop", then "returned"
    api_result,  \* the value returned
    api_log      \* history: what each session.get call gave

extract_vars == <<blocks, in_rebuttal, in_defense, current_name, current_lines,
                  pc, idx, last_para, sawMarker, lastSignal>>

split_vars == <<aff_blocks, neg_blocks, unk_blocks, aff_labels, neg_labels>>

main_vars == <<all_metas, meta_i, all_blocks, failed, tournaments_seen, main_pc,
               fetched, split_vars>>

group_vars == <<grp_in, raw, keys, key_i, canonical, grp_pc, grouped, last_merge,
                alt_in, alt_out>>

render_vars == <<rnd_para, rnd_rich, rnd_pc>>

build_vars == <<bld_in, bld_story, bld_pos, bld_pc, bld_trace>>

rounds_vars == <<rounds_in, round_i, seen, dedup_pc>>

api_vars == <<api_retries, api_attempt, api_pc, api_result, api_log>>

aux_vars == <<render_vars, build_vars, rounds_vars, api_vars>>

vars == <<extract_vars, main_vars, group_vars, aux_vars>>

\* The flat-file labels are looked for only while not in a rebuttal section.
PlainLabel(p) == IF ~in_rebuttal THEN FlatLabel(p) ELSE "none"

\* The section signal paragraph p is in the current state.
SignalOf(p) ==
    IF Text(p) = <<>> THEN "none"
    ELSE IF Transition(p) # "none" THEN Transition(p)
    ELSE PlainLabel(p)

\* A rebuttal-section or defense-section marker: a heading that triggers
\* that transition, or a body paragraph that is a rebuttal label alone.
IsMarker(p) ==
    /\ Text(p) # <<>>
    /\ \/ Transition(p) \in {"rebuttal", "defense"}
       \/ FlatLabel(p) = "rebuttal"

\* flush() that does not look at the accumulated lines.
FlushedAnyLines ==
    IF current_name # None
    THEN Append(blocks, [arg_name |-> current_name, lines |-> current_lines,
                         source |-> source_meta])
    ELSE blocks

\* flush(): the output list after it.
Flushed ==
    IF current_name # None /\ current_lines # <<>>
    THEN Append(blocks, [arg_name |-> current_name, lines |-> current_lines,
                         source |-> source_meta])
    ELSE blocks

\* flush() followed by current_name = name (None: flush() alone).
FlushThen(name) ==
    /\ blocks' = Flushed
    /\ current_name' = name
    /\ current_lines' = <<>>

\* The loop body without "if not in_rebuttal: continue".
NeverSkipped == FALSE

\* "if not in_rebuttal: continue"
NotInRebuttal == ~in_rebuttal

\* The loop has a next paragraph.
CanRead == pc = "walk" /\ idx < MaxParas

\* One turn of the loop reads paragraph p.
Read(p) ==
    /\ idx' = idx + 1
    /\ last_para' = p
    /\ pc' = pc
    /\ sawMarker' = (sawMarker \/ IsMarker(p))
    /\ lastSignal' = IF SignalOf(p) # "none" THEN SignalOf(p) ELSE lastSignal
    /\ UNCHANGED <<main_vars, group_vars, aux_vars>>

\* extract_blocks: the state before the first paragraph.
ExtractInit ==
    /\ blocks = <<>>
    /\ in_rebuttal = FALSE
    /\ in_defense = FALSE
    /\ current_name = None
    /\ current_lines = <<>>
    /\ pc = "walk"
    /\ idx = 0
    /\ last_para = NoPara
    /\ sawMarker = FALSE
    /\ lastSignal = "none"

\* The split by side has not been made.
SplitIdle ==
    /\ aff_blocks = <<>>
    /\ neg_blocks = <<>>
    /\ unk_blocks = <<>>
    /\ aff_labels = <<>>
    /\ neg_labels = <<>>

\* main has not started.
MainIdle ==
    /\ all_metas = <<>>
    /\ meta_i = 0
    /\ all_blocks = <<>>
    /\ failed = 0
    /\ tournaments_seen = {}
    /\ main_pc = "idle"
    /\ fetched = <<>>
    /\ SplitIdle

\* No merge yet.
NoMerge == [kind |-> "none", ckey |-> <<>>, had |-> <<>>, key |-> <<>>, bucket |-> <<>>]

\* group_by_argument has not been called.
GroupIdle ==
    /\ grp_in = <<>>
    /\ raw = <<>>
    /\ keys = <<>>
    /\ key_i = 0
    /\ canonical = <<>>
    /\ grp_pc = "idle"
    /\ grouped = <<>>
    /\ last_merge = NoMerge
    /\ alt_in = <<>>
    /\ alt_out = <<>>

\* _para_to_rich has not been called.
RenderIdle ==
    /\ rnd_para = NoPara
    /\ rnd_rich = <<>>
    /\ rnd_pc = "idle"

\* build_pdf has not been called.
BuildIdle ==
    /\ bld_in = <<>>
    /\ bld_story = <<>>
    /\ bld_pos = <<0, 0, 0>>
    /\ bld_pc = "idle"
    /\ bld_trace = <<>>

\* dedup_rounds has not been called.
RoundsIdle ==
    /\ rounds_in = <<>>
    /\ round_i = 0
    /\ seen = <<>>
    /\ dedup_pc = "idle"

\* api_get has not been called.
ApiIdle ==
    /\ api_retries = 0
    /\ api_attempt = 0
    /\ api_pc = "idle"
    /\ api_result = None
    /\ api_log = <<>>

AuxIdle == RenderIdle /\ BuildIdle /\ RoundsIdle /\ ApiIdle

Init == ExtractInit /\ MainIdle /\ GroupIdle /\ AuxIdle

\* "if not text: continue"
SkipBlank(p) ==
    /\ CanRead
    /\ Text(p) = <<>>
    /\ UNCHANGED <<blocks, in_rebuttal, in_defense, current_name, current_lines>>
    /\ Read(p)

DefenseHeading(p) ==
    /\ CanRead
    /\ p.level # 0
    /\ Text(p) # <<>>
    /\ Transition(p) = "defense"
    /\ FlushThen(None)
    /\ in_rebuttal' = TRUE
    /\ in_defense' = TRUE
    /\ Read(p)

\* A rebuttal heading that leaves in_defense as it was.
RebuttalHeadingKeepsDefense(p) ==
    /\ CanRead
    /\ p.level # 0
    /\ Text(p) # <<>>
    /\ Transition(p) = "rebuttal"
    /\ FlushThen(None)
    /\ in_rebuttal' = TRUE
    /\ in_defense' = in_defense
    /\ Read(p)

RebuttalHeading(p) ==
    /\ CanRead
    /\ p.level # 0
    /\ Text(p) # <<>>
    /\ Transition(p) = "rebuttal"
    /\ FlushThen(None)
    /\ in_rebuttal' = TRUE
    /\ in_defense' = FALSE
    /\ Read(p)

\* A constructive heading that leaves in_defense as it was.
ConstructiveHeadingKeepsDefense(p) ==
    /\ CanRead
    /\ p.level # 0
    /\ Text(p) # <<>>
    /\ Transition(p) = "constructive"
    /\ FlushThen(None)
    /\ in_rebuttal' = FALSE
    /\ in_defense' = in_defense
    /\ Read(p)

\* A constructive heading that flushes but stays in the section.
ConstructiveHeadingStays(p) ==
    /\ CanRead
    /\ p.level # 0
    /\ Text(p) # <<>>
    /\ Transition(p) = "constructive"
    /\ FlushThen(None)
    /\ UNCHANGED <<in_rebuttal, in_defense>>
    /\ Read(p)

ConstructiveHeading(p) ==
    /\ CanRead
    /\ p.level # 0
    /\ Text(p) # <<>>
    /\ Transition(p) = "constructive"
    /\ FlushThen(None)
    /\ in_rebuttal' = FALSE
    /\ in_defense' = FALSE
    /\ Read(p)

\* A bare "2AC" / "2NC" on its own line in a Normal paragraph
PlainRebuttalLabel(p) ==
    /\ CanRead
    /\ p.level = 0 /\ ~in_rebuttal
    /\ Text(p) # <<>>
    /\ PlainLabel(p) = "rebuttal"
    /\ FlushThen(None)
    /\ in_rebuttal' = TRUE
    /\ in_defense' = FALSE
    /\ Read(p)

PlainConstructiveLabel(p) ==
    /\ CanRead
    /\ p.level = 0 /\ ~in_rebuttal
    /\ Text(p) # <<>>
    /\ PlainLabel(p) = "constructive"
    /\ FlushThen(None)
    /\ in_rebuttal' = FALSE
    /\ in_defense' = FALSE
    /\ Read(p)

\* The paragraph passed both signal checks without a "continue".
NoSignal(p) ==
    /\ Text(p) # <<>>
    /\ Transition(p) = "none"
    /\ PlainLabel(p) = "none"

SkipOutside(p) ==
    /\ CanRead
    /\ NotInRebuttal
    /\ NoSignal(p)
    /\ UNCHANGED <<blocks, in_rebuttal, in_defense, current_name, current_lines>>
    /\ Read(p)

\* Heading 2 or 3 that names the new block without flush() first.
HeadingTwoThreeNoFlush(p) ==
    /\ CanRead
    /\ ~NotInRebuttal
    /\ p.level \in {2, 3}
    /\ NoSignal(p)
    /\ IF TryGetBlockName(Text(p)) # None
       THEN current_name' = TryGetBlockName(Text(p)) /\ UNCHANGED <<blocks, current_lines>>
       ELSE IF in_defense /\ DefenseName(Text(p)) # <<>>
       THEN current_name' = DefenseName(Text(p)) /\ UNCHANGED <<blocks, current_lines>>
       ELSE UNCHANGED <<blocks, current_name, current_lines>>
    /\ UNCHANGED <<in_rebuttal, in_defense>>
    /\ Read(p)

\* Heading 2 or 3: block name detection
HeadingTwoThree(p) ==
    /\ CanRead
    /\ ~NotInRebuttal
    /\ p.level \in {2, 3}
    /\ NoSignal(p)
    /\ IF TryGetBlockName(Text(p)) # None
       THEN FlushThen(TryGetBlockName(Text(p)))
       ELSE IF in_defense /\ DefenseName(Text(p)) # <<>>
       THEN FlushThen(DefenseName(Text(p)))
       ELSE UNCHANGED <<blocks, current_name, current_lines>>
    /\ UNCHANGED <<in_rebuttal, in_defense>>
    /\ Read(p)

\* Heading 4 that is a card tag in defense mode too.
HeadingFourNoDefense(p) ==
    /\ CanRead
    /\ ~NotInRebuttal
    /\ p.level = 4
    /\ NoSignal(p)
    /\ IF current_name # None
       THEN /\ current_lines' = Append(current_lines, TagLine(Text(p)))
            /\ UNCHANGED <<blocks, current_name>>
       ELSE UNCHANGED <<blocks, current_name, current_lines>>
    /\ UNCHANGED <<in_rebuttal, in_defense>>
    /\ Read(p)

\* Heading 4 that adds the card tag whether or not a block is open.
HeadingFourTagAlways(p) ==
    /\ CanRead
    /\ ~NotInRebuttal
    /\ p.level = 4
    /\ NoSignal(p)
    /\ IF in_defense
       THEN IF DefenseName(Text(p)) # <<>>
            THEN FlushThen(DefenseName(Text(p)))
            ELSE UNCHANGED <<blocks, current_name, current_lines>>
       ELSE /\ current_lines' = Append(current_lines, TagLine(Text(p)))
            /\ UNCHANGED <<blocks, current_name>>
    /\ UNCHANGED <<in_rebuttal, in_defense>>
    /\ Read(p)

\* Heading 4: card tag or block name (depends on mode)
HeadingFour(p) ==
    /\ CanRead
    /\ ~NotInRebuttal
    /\ p.level = 4
    /\ NoSignal(p)
    /\ IF in_defense
       THEN IF DefenseName(Text(p)) # <<>>
            THEN FlushThen(DefenseName(Text(p)))
            ELSE UNCHANGED <<blocks, current_name, current_lines>>
       ELSE IF current_name # None
       THEN /\ current_lines' = Append(current_lines, TagLine(Text(p)))
            /\ UNCHANGED <<blocks, current_name>>
       ELSE UNCHANGED <<blocks, current_name, current_lines>>
    /\ UNCHANGED <<in_rebuttal, in_defense>>
    /\ Read(p)

\* Body paragraph whose rendering is appended even when it is empty.
BodyParagraphKeepsEmpty(p) ==
    /\ CanRead
    /\ ~NotInRebuttal
    /\ p.level = 0
    /\ NoSignal(p)
    /\ IF TryGetBlockName(Text(p)) # None
       THEN FlushThen(TryGetBlockName(Text(p)))
       ELSE IF current_name # None
       THEN /\ current_lines' = Append(current_lines, BodyLine(_para_to_rich(p)))
            /\ UNCHANGED <<blocks, current_name>>
       ELSE UNCHANGED <<blocks, current_name, current_lines>>
    /\ UNCHANGED <<in_rebuttal, in_defense>>
    /\ Read(p)

\* Normal text: AT: in flat files, or card body
BodyParagraph(p) ==
    /\ CanRead
    /\ ~NotInRebuttal
    /\ p.level = 0
    /\ NoSignal(p)
    /\ IF TryGetBlockName(Text(p)) # None
       THEN FlushThen(TryGetBlockName(Text(p)))
       ELSE IF current_name # None /\ RichNonEmpty(_para_to_rich(p))
       THEN /\ current_lines' = Append(current_lines, BodyLine(_para_to_rich(p)))
            /\ UNCHANGED <<blocks, current_name>>
       ELSE UNCHANGED <<blocks, current_name, current_lines>>
    /\ UNCHANGED <<in_rebuttal, in_defense>>
    /\ Read(p)

\* A heading of level 1, 5 or 6 that closes the open block.
OtherHeadingCloses(p) ==
    /\ CanRead
    /\ ~NotInRebuttal
    /\ p.level \notin {0, 2, 3, 4}
    /\ NoSignal(p)
    /\ FlushThen(None)
    /\ UNCHANGED <<in_rebuttal, in_defense>>
    /\ Read(p)

\* A heading of level 1, 5 or 6 inside a rebuttal section: no branch takes it.
OtherHeading(p) ==
    /\ CanRead
    /\ ~NotInRebuttal
    /\ p.level \notin {0, 2, 3, 4}
    /\ NoSignal(p)
    /\ UNCHANGED <<blocks, in_rebuttal, in_defense, current_name, current_lines>>
    /\ Read(p)

\* Return after the loop without the final flush().
EndOfDocumentNoFlush ==
    /\ pc = "walk"
    /\ pc' = "done"
    /\ UNCHANGED <<blocks, current_name, current_lines>>
    /\ UNCHANGED <<in_rebuttal, in_defense, idx, last_para, sawMarker, lastSignal>>
    /\ UNCHANGED <<main_vars, group_vars, aux_vars>>

\* After the loop: flush() and return blocks.
EndOfDocument ==
    /\ pc = "walk"
    /\ pc' = "done"
    /\ FlushThen(None)
    /\ UNCHANGED <<in_rebuttal, in_defense, idx, last_para, sawMarker, lastSignal>>
    /\ UNCHANGED <<main_vars, group_vars, aux_vars>>

Step(p) ==
    \/ SkipBlank(p)
    \/ DefenseHeading(p)
    \/ RebuttalHeading(p)
    \/ ConstructiveHeading(p)
    \/ PlainRebuttalLabel(p)
    \/ PlainConstructiveLabel(p)
    \/ SkipOutside(p)
    \/ HeadingTwoThree(p)
    \/ HeadingFour(p)
    \/ BodyParagraph(p)
    \/ OtherHeading(p)

Next == (\E p \in Paragraphs : Step(p)) \/ EndOfDocument

Spec == Init /\ [][Next]_vars

\* ------------------------------------------------------------- main
\* The sides a round record carries.
Sides == {"A", "a", "n", ""}

\* The tournament names of the archive, by position of the record.
Tournaments == <<<<"2025", HY, "Harvard">>, <<"Berkeley">>, <<"2025">>>>

\* The source record at position i of the batch.
Meta(i, side) ==
    [opensource |-> <<"round", i>>, side |-> side,
     tournament |-> Tournaments[((i - 1) % Len(Tournaments)) + 1]]

\* meta["tournament"].lstrip("0123456789-\u2013 ").strip() or "Unknown"
Tourn(meta) ==
    LET t == Strip(From(meta.tournament,
                        SkipIn(meta.tournament, 1, {"2025", HY, "ENDASH", SP})))
    IN IF t = <<>> THEN <<"Unknown">> ELSE t

\* download_file gave nothing.
NoData == [kind |-> "none", content |-> <<>>]

\* Bytes that Document() cannot parse.
BadBytes == [kind |-> "bad", content |-> <<>>]

\* A document, given by the blocks the walk over its paragraphs returns.
GoodDocs ==
    { [kind |-> "docx", content |-> <<>>],
      [kind |-> "docx",
       content |-> << [arg_name |-> <<"Econ">>, lines |-> <<TagLine(<<"Turn">>)>>],
                      [arg_name |-> <<"States">>, lines |-> <<TagLine(<<"Turn">>)>>] >>] }

\* What download_file can return.
Downloads == {NoData, BadBytes} \cup GoodDocs

\* extract_blocks(docx_bytes, source_meta): nothing when the bytes do not
\* parse, else the blocks of the document, each with the source record.
extract_blocks(docx_bytes, meta) ==
    IF docx_bytes.kind # "docx" THEN <<>>
    ELSE [k \in 1..Len(docx_bytes.content) |->
            [arg_name |-> docx_bytes.content[k].arg_name,
             lines |-> docx_bytes.content[k].lines,
             source |-> meta]]

\* The batches main may be given.
MetaLists ==
    UNION { { [i \in 1..n |-> Meta(i, f[i])] : f \in [1..n -> Sides] } : n \in 0..MaxMetas }

\* main right before the loop over all_metas.
MainInit ==
    /\ ExtractInit
    /\ all_metas \in MetaLists
    /\ meta_i = 0
    /\ all_blocks = <<>>
    /\ failed = 0
    /\ tournaments_seen = {}
    /\ main_pc = "loop"
    /\ fetched = <<>>
    /\ SplitIdle
    /\ GroupIdle
    /\ AuxIdle

\* The loop takes the next record and download_file returns data.
Take(data) ==
    /\ main_pc = "loop"
    /\ meta_i < Len(all_metas)
    /\ meta_i' = meta_i + 1
    /\ fetched' = Append(fetched, data)
    /\ UNCHANGED <<all_metas, split_vars, extract_vars, group_vars, aux_vars>>

\* The loop stops at a failed download.
DownloadFailedStops(data) ==
    /\ data = NoData
    /\ Take(data)
    /\ failed' = failed + 1
    /\ main_pc' = "returned"
    /\ UNCHANGED <<all_blocks, tournaments_seen>>

\* "if not data: failed += 1; continue"
DownloadFailed(data) ==
    /\ data = NoData
    /\ Take(data)
    /\ failed' = failed + 1
    /\ UNCHANGED <<all_blocks, tournaments_seen, main_pc>>

\* The record is downloaded: its tournament is noted, its blocks are added.
Extracted(data) ==
    /\ data # NoData
    /\ Take(data)
    /\ tournaments_seen' = tournaments_seen \cup {Tourn(all_metas[meta_i + 1])}
    /\ all_blocks' = all_blocks \o extract_blocks(data, all_metas[meta_i + 1])
    /\ UNCHANGED <<failed, main_pc>>

\* After the loop: "if not all_blocks: return", else on to the split by side.
LoopDone ==
    /\ main_pc = "loop"
    /\ meta_i = Len(all_metas)
    /\ main_pc' = IF all_blocks = <<>> THEN "returned" ELSE "split"
    /\ UNCHANGED <<all_metas, meta_i, all_blocks, failed, tournaments_seen, fetched,
                   split_vars, extract_vars, group_vars, aux_vars>>

\* side.upper()
UpperSide(side) == CASE side = "a" -> "A" [] side = "n" -> "N" [] OTHER -> side

\* blk["source"].get("side", "").upper()
SideOf(blk) == UpperSide(blk.source.side)

\* The blocks of bs, in order, whose side is in the set given.
OfSides(bs, ss) == SelectSeq(bs, LAMBDA blk : SideOf(blk) \in ss)

\* The blocks of bs, in order, whose side is neither "A" nor "N".
OfNoSide(bs) == SelectSeq(bs, LAMBDA blk : SideOf(blk) \notin {"A", "N"})

\* The split that leaves the blocks of unknown side out of both lists.
SplitDropsUnknown ==
    /\ main_pc = "split"
    /\ unk_blocks' = OfNoSide(all_blocks)
    /\ aff_blocks' = OfSides(all_blocks, {"A"})
    /\ neg_blocks' = OfSides(all_blocks, {"N"})
    /\ main_pc' = "build"
    /\ UNCHANGED <<all_metas, meta_i, all_blocks, failed, tournaments_seen, fetched,
                   aff_labels, neg_labels, extract_vars, group_vars, aux_vars>>

\* The loop over all_blocks that fills aff_blocks, neg_blocks and unk_blocks,
\* then "if unk_blocks:" the two extend calls.
SplitBySide ==
    /\ main_pc = "split"
    /\ unk_blocks' = OfNoSide(all_blocks)
    /\ aff_blocks' = OfSides(all_blocks, {"A"}) \o OfNoSide(all_blocks)
    /\ neg_blocks' = OfSides(all_blocks, {"N"}) \o OfNoSide(all_blocks)
    /\ main_pc' = "build"
    /\ UNCHANGED <<all_metas, meta_i, all_blocks, failed, tournaments_seen, fetched,
                   aff_labels, neg_labels, extract_vars, group_vars, aux_vars>>

\* _fmt_source(src): the side word and the tournament of the first line.
_fmt_source(src) ==
    [side |-> IF src.side = "A" THEN "AFF" ELSE "NEG",
     tourn |-> _xml_escape(Strip(From(src.tournament,
                   SkipIn(src.tournament, 1, {"2025", HY, "ENDASH", SP}))))]

\* build_pdf on the blocks given: the side word of each attribution line.
SideWords(bs) == [k \in 1..Len(bs) |-> _fmt_source(bs[k].source).side]

\* The two files are built: "if aff_blocks: ... build_pdf", "if neg_blocks: ...
\* build_pdf".
BuildFiles ==
    /\ main_pc = "build"
    /\ aff_labels' = SideWords(aff_blocks)
    /\ neg_labels' = SideWords(neg_blocks)
    /\ main_pc' = "built"
    /\ UNCHANGED <<all_metas, meta_i, all_blocks, failed, tournaments_seen, fetched,
                   aff_blocks, neg_blocks, unk_blocks, extract_vars, group_vars,
                   aux_vars>>

MainNext ==
    \/ \E data \in Downloads : DownloadFailed(data)
    \/ \E data \in Downloads : Extracted(data)
    \/ LoopDone
    \/ SplitBySide
    \/ BuildFiles

SpecMain == MainInit /\ [][MainNext]_vars

\* ------------------------------------------------- group_by_argument
\* Argument names are sequences of characters here: "in" is a test on
\* characters. (Tournament names are sequences of words and blanks.)
LowerCh(ch) ==
    CASE ch = "A" -> "a"
      [] ch = "B" -> "b"
      [] ch = "C" -> "c"
      [] ch \in {"Harvard", "HARVARD"} -> "harvard"
      [] ch = "College" -> "college"
      [] ch = "Debating" -> "debating"
      [] ch = "Union" -> "union"
      [] ch \in {"Season", "SEASON"} -> "season"
      [] ch \in {"Opener", "OPENER"} -> "opener"
      [] ch = "HCDU" -> "hcdu"
      [] ch = "Berkeley" -> "berkeley"
      [] ch = "Stanford" -> "stanford"
      [] ch = "Bellaire" -> "bellaire"
      [] ch = "Pennsbury" -> "pennsbury"
      [] ch = "Yale" -> "yale"
      [] OTHER -> ch

\* str.lower()
Lower(s) == [i \in 1..Len(s) |-> LowerCh(s[i])]

\* The k-th smallest member of a set of numbers.
Nth(S, k) == CHOOSE i \in S : Cardinality({j \in S : j <= i}) = k

\* The elements of s at the positions S, in order.
Pick(s, S) == [k \in 1..Cardinality(S) |-> s[Nth(S, k)]]

\* re.sub(r'\s+', ' ', s)
Collapse(s) == Pick(s, {i \in 1..Len(s) : ~(s[i] = SP /\ i > 1 /\ s[i - 1] = SP)})

\* _normalize(name)
_normalize(name) == Collapse(Strip(Lower(name)))

\* a in b, on strings
IsIn(a, b) == \E i \in 1..(Len(b) - Len(a) + 1) : SubSeq(b, i, i + Len(a) - 1) = a

\* nk in ck or ck in nk
Related(key, ckey) ==
    \/ IsIn(_normalize(key), _normalize(ckey))
    \/ IsIn(_normalize(ckey), _normalize(key))

\* raw: one entry per argument name, in order of first occurrence, with the
\* blocks of that name in input order.
RawOf(bs) ==
    LET first == {i \in 1..Len(bs) :
                     \A j \in 1..(i - 1) : bs[j].arg_name # bs[i].arg_name}
    IN [k \in 1..Cardinality(first) |->
          [key |-> bs[Nth(first, k)].arg_name,
           val |-> SelectSeq(bs, LAMBDA b : b.arg_name = bs[Nth(first, k)].arg_name)]]

\* sorted(raw.keys(), key=lambda k: -len(k)): a stable sort.
SortedKeys(r) ==
    LET n == Len(r)
        rank(i) == 1 + Cardinality({j \in 1..n :
                          \/ Len(r[j].key) > Len(r[i].key)
                          \/ Len(r[j].key) = Len(r[i].key) /\ j < i})
    IN [p \in 1..n |-> r[CHOOSE i \in 1..n : rank(i) = p].key]

\* raw[key]
Bucket(r, key) == r[CHOOSE i \in 1..Len(r) : r[i].key = key].val

\* The first canonical entry the key is related to, 0 when there is none.
FirstMet(c, key) ==
    LET met == {i \in 1..Len(c) : Related(key, c[i].key)}
    IN IF met = {} THEN 0 ELSE Nth(met, 1)

\* The loop body that renames the entry also when the sizes are equal.
PlaceRenamesOnTie(c, key, bucket) ==
    LET m == FirstMet(c, key)
    IN IF m = 0 THEN Append(c, [key |-> key, val |-> bucket])
       ELSE IF Len(bucket) >= Len(c[m].val)
       THEN Append(Pick(c, (1..Len(c)) \ {m}), [key |-> key, val |-> c[m].val \o bucket])
       ELSE [c EXCEPT ![m].val = @ \o bucket]

\* The loop body whose renamed entry holds the bucket alone.
PlaceRenameLoses(c, key, bucket) ==
    LET m == FirstMet(c, key)
    IN IF m = 0 THEN Append(c, [key |-> key, val |-> bucket])
       ELSE IF Len(bucket) > Len(c[m].val)
       THEN Append(Pick(c, (1..Len(c)) \ {m}), [key |-> key, val |-> bucket])
       ELSE [c EXCEPT ![m].val = @ \o bucket]

\* The body of the loop over the sorted names: the bucket joins the first
\* related entry (which takes the bucket's name if the bucket is larger and
\* then moves to the end of the table), or becomes a new entry.
Place(c, key, bucket) ==
    LET m == FirstMet(c, key)
    IN IF m = 0 THEN Append(c, [key |-> key, val |-> bucket])
       ELSE IF Len(bucket) > Len(c[m].val)
       THEN Append(Pick(c, (1..Len(c)) \ {m}), [key |-> key, val |-> c[m].val \o bucket])
       ELSE [c EXCEPT ![m].val = @ \o bucket]

\* The table returned as it is, without the final sort.
SortGroupsNot(c) == c

\* dict(sorted(canonical.items(), key=lambda kv: -len(kv[1]))): a stable sort.
SortGroups(c) ==
    LET n == Len(c)
        rank(i) == 1 + Cardinality({j \in 1..n :
                          \/ Len(c[j].val) > Len(c[i].val)
                          \/ Len(c[j].val) = Len(c[i].val) /\ j < i})
    IN [p \in 1..n |-> c[CHOOSE i \in 1..n : rank(i) = p]]

\* The second loop: the names ks of r placed one after the other.
PlaceAll(r, ks) ==
    LET placed[i \in 0..Len(ks)] ==
            IF i = 0 THEN <<>> ELSE Place(placed[i - 1], ks[i], Bucket(r, ks[i]))
    IN placed[Len(ks)]

\* group_by_argument(all_blocks); r is raw and ks the sorted names, each
\* computed once.
group_by_argument(bs) ==
    LET FromRaw(r) ==
            CHOOSE g \in {SortGroups(PlaceAll(r, ks)) : ks \in {SortedKeys(r)}} : TRUE
    IN CHOOSE g \in {FromRaw(r) : r \in {RawOf(bs)}} : TRUE

\* The blocks of a mapping, the groups' lists concatenated in group order.
Flatten(g) ==
    LET f[i \in 0..Len(g)] == IF i = 0 THEN <<>> ELSE f[i - 1] \o g[i].val
    IN f[Len(g)]

\* A block as group_by_argument sees it.
GBlock(name, tag) ==
    [arg_name |-> name, lines |-> <<TagLine(<<tag>>)>>, source |-> source_meta]

\* Argument names: two of equal length that both contain a third, and one
\* that differs from another by case only.
GroupNames == {<<"a", "b">>, <<"c", "b">>, <<"b">>, <<"A", "b">>}

GroupBlocks == {GBlock(n, "Turn") : n \in GroupNames} \cup {GBlock(<<"b">>, "Link")}

\* The block lists group_by_argument may be given.
BlockLists == UNION {[1..n -> GroupBlocks] : n \in 0..MaxBlocks}

\* group_by_argument is called.
GroupInit ==
    /\ ExtractInit
    /\ MainIdle
    /\ AuxIdle
    /\ grp_in \in BlockLists
    /\ raw = <<>>
    /\ keys = <<>>
    /\ key_i = 0
    /\ canonical = <<>>
    /\ grp_pc = "raw"
    /\ grouped = <<>>
    /\ last_merge = NoMerge
    /\ alt_in = <<>>
    /\ alt_out = <<>>

\* The first loop: raw, and the names sorted for the second.
BuildRaw ==
    /\ grp_pc = "raw"
    /\ raw' = RawOf(grp_in)
    /\ keys' = SortedKeys(RawOf(grp_in))
    /\ grp_pc' = "place"
    /\ UNCHANGED <<grp_in, key_i, canonical, grouped, last_merge, alt_in, alt_out,
                   extract_vars, main_vars, aux_vars>>

\* One turn of the second loop.
PlaceKey ==
    /\ grp_pc = "place"
    /\ key_i < Len(keys)
    /\ LET key == keys[key_i + 1]
           m == FirstMet(canonical, key)
       IN /\ canonical' = Place(canonical, key, Bucket(raw, key))
          /\ last_merge' =
                IF m = 0 THEN NoMerge
                ELSE [kind |-> "merge", ckey |-> canonical[m].key,
                      had |-> canonical[m].val, key |-> key,
                      bucket |-> Bucket(raw, key)]
    /\ key_i' = key_i + 1
    /\ UNCHANGED <<grp_in, raw, keys, grp_pc, grouped, alt_in, alt_out,
                   extract_vars, main_vars, aux_vars>>

\* The return statement.
ReturnSorted ==
    /\ grp_pc = "place"
    /\ key_i = Len(keys)
    /\ grouped' = SortGroups(canonical)
    /\ grp_pc' = "done"
    /\ UNCHANGED <<grp_in, raw, keys, key_i, canonical, last_merge, alt_in, alt_out,
                   extract_vars, main_vars, aux_vars>>

\* group_by_argument on the same list with two neighbours swapped.
Shuffled(i) ==
    /\ grp_pc = "done"
    /\ i \in 1..(Len(grp_in) - 1)
    /\ alt_in' = [grp_in EXCEPT ![i] = grp_in[i + 1], ![i + 1] = grp_in[i]]
    /\ alt_out' = group_by_argument(alt_in')
    /\ grp_pc' = "shuffled"
    /\ UNCHANGED <<grp_in, raw, keys, key_i, canonical, grouped, last_merge,
                   extract_vars, main_vars, aux_vars>>

\* group_by_argument on the blocks of the mapping it returned.
Regrouped ==
    /\ grp_pc = "done"
    /\ alt_in' = Flatten(grouped)
    /\ alt_out' = group_by_argument(alt_in')
    /\ grp_pc' = "regrouped"
    /\ UNCHANGED <<grp_in, raw, keys, key_i, canonical, grouped, last_merge,
                   extract_vars, main_vars, aux_vars>>

GroupNext ==
    \/ BuildRaw
    \/ PlaceKey
    \/ ReturnSorted
    \/ \E i \in 1..MaxBlocks : Shuffled(i)
    \/ Regrouped

SpecGroup == GroupInit /\ [][GroupNext]_vars
\* ------------------------------------------------------ _para_to_rich
\* The direct formatting a run may carry: bold and underline set or unset
\* (None), a highlight colour or none.
RunFormats == [bold : {"True", "None"}, underline : {"True", "None"},
               hl : {"None", "YELLOW"}]

\* What an unset attribute of a run inherits from the paragraph's style.
ParaStyles == {[bold |-> FALSE, underline |-> FALSE], [bold |-> TRUE, underline |-> TRUE]}

\* The texts of the paragraphs rendered: a card with its citation tag first,
\* the same after a blank, a paragraph with no citation tag.
RenderTexts ==
    { <<"Donnelly", SP, "23", SP, "&">>,
      <<SP, "Donnelly", SP, "23", SP, "&">>,
      <<"Link", SP, "grows">> }

\* The ways to cut len characters into n runs, none empty: the end of each run.
Cuts(len, n) ==
    {c \in [0..n -> 0..len] : c[0] = 0 /\ c[n] = len /\ \A i \in 1..n : c[i - 1] < c[i]}

\* The paragraph of text t cut at c, run i formatted as f[i], of style st.
RenderPara(t, n, c, f, st) ==
    [level |-> 0, text |-> t, style |-> st,
     runs |-> [i \in 1..n |->
                 [text |-> SubSeq(t, c[i - 1] + 1, c[i]), bold |-> f[i].bold,
                  underline |-> f[i].underline, hl |-> f[i].hl]]]

\* _para_to_rich is called on a paragraph of one of the texts, cut into at
\* most MaxRuns runs of any formatting.
RenderInit ==
    /\ ExtractInit
    /\ MainIdle
    /\ GroupIdle
    /\ BuildIdle
    /\ RoundsIdle
    /\ ApiIdle
    /\ \E t \in RenderTexts, n \in 1..MaxRuns, st \in ParaStyles :
          \E c \in Cuts(Len(t), n), f \in [1..n -> RunFormats] :
              rnd_para = RenderPara(t, n, c, f, st)
    /\ rnd_rich = <<>>
    /\ rnd_pc = "call"

\* The call returns.
Render ==
    /\ rnd_pc = "call"
    /\ rnd_rich' = _para_to_rich(rnd_para)
    /\ rnd_pc' = "done"
    /\ UNCHANGED <<rnd_para, extract_vars, main_vars, group_vars, build_vars,
                   rounds_vars, api_vars>>

RenderNext == Render

SpecRender == RenderInit /\ [][RenderNext]_vars

\* ---------------------------------------------------------- build_pdf
\* The blocks build_pdf is handed: a card with a tag line and a body line
\* that hold "&"; a block whose only line is a paragraph of a blank run and a
\* hyperlink (the line's text is the blank); a block of a plain paragraph.
BuildBlocks ==
    { [arg_name |-> <<"R", "&", "D">>,
       lines |-> << TagLine(<<"Turn", "&", "Burn">>),
                    BodyLine(_para_to_rich(Body(<<"Donnelly", SP, "23", SP, "&">>,
                        <<PlainRun(<<"Donnelly", SP, "23", SP, "&">>)>>))) >>,
       source |-> [opensource |-> <<"round", 1>>, side |-> "A",
                   tournament |-> <<"2025", HY, "R", "&", "D">>]],
      [arg_name |-> <<"b">>,
       lines |-> << BodyLine(_para_to_rich(Body(<<SP, "Link">>, <<PlainRun(<<SP>>)>>))) >>,
       source |-> [opensource |-> <<"round", 2>>, side |-> "",
                   tournament |-> <<"Berkeley">>]],
      [arg_name |-> <<"b">>,
       lines |-> << BodyLine(_para_to_rich(Body(<<"Link", SP, "grows">>,
                        <<PlainRun(<<"Link", SP, "grows">>)>>))) >>,
       source |-> [opensource |-> <<"round", 3>>, side |-> "n",
                   tournament |-> <<"Berkeley">>]] }

\* The canonical names of the groups.
BuildNames == {<<"b">>, <<"R", "&", "D">>}

\* The mappings of n groups with m[i] blocks in group i.
BuildGroups(n, m) ==
    { g \in [1..n -> [key : BuildNames, val : UNION {[1..k -> BuildBlocks] : k \in 1..MaxBuildBlocks}]] :
        /\ \A i \in 1..n : Len(g[i].val) = m[i]
        /\ \A i, j \in 1..n : i # j => g[i].key # g[j].key }

\* The sum of the numbers m[1], ..., m[n].
SumOf(m, n) ==
    LET f[i \in 0..n] == IF i = 0 THEN 0 ELSE f[i - 1] + m[i]
    IN f[n]

\* build_pdf is called on a mapping of at most MaxBuildBlocks blocks.
BuildInit ==
    /\ ExtractInit
    /\ MainIdle
    /\ GroupIdle
    /\ RenderIdle
    /\ RoundsIdle
    /\ ApiIdle
    /\ \E n \in 1..Cardinality(BuildNames) :
          \E m \in [1..n -> 1..MaxBuildBlocks] :
              /\ SumOf(m, n) <= MaxBuildBlocks
              /\ bld_in \in BuildGroups(n, m)
    /\ bld_story = <<>>
    /\ bld_pos = <<1, 0, 0>>
    /\ bld_pc = "heading"
    /\ bld_trace = <<>>

\* The group, the block and the line the loops are at.
BldGroup == bld_in[bld_pos[1]]
BldBlock == BldGroup.val[bld_pos[2]]
BldLine == BldBlock.lines[bld_pos[3] + 1]

\* is_tag: the line is in the card-tag markup (the tag texts here are short).
IsTag(line) == line.kind = "tag"

\* re.sub(r'<[^>]+>', '', line): the text the markup holds, as it is there.
PlainOf(line) ==
    IF line.kind = "tag" THEN line.text
    ELSE LET f[i \in 0..Len(line.frags)] ==
                 IF i = 0 THEN <<>> ELSE f[i - 1] \o line.frags[i].text
         IN f[Len(line.frags)]

\* The loops move on after a line.
AfterLine ==
    IF bld_pos[3] + 1 < Len(BldBlock.lines)
    THEN bld_pos' = <<bld_pos[1], bld_pos[2], bld_pos[3] + 1>> /\ bld_pc' = "line"
    ELSE IF bld_pos[2] < Len(BldGroup.val)
    THEN bld_pos' = <<bld_pos[1], bld_pos[2] + 1, 0>> /\ bld_pc' = "source"
    ELSE bld_pos' = <<bld_pos[1] + 1, 0, 0>> /\ bld_pc' = "heading"

\* A step of build_pdf at the current position: what it was, whether the
\* engine took the markup, and where in the story its paragraph is (0: none).
Traced(kind, accepted, emitted) ==
    Append(bld_trace, [pos |-> bld_pos, kind |-> kind, accepted |-> accepted,
                       at |-> IF emitted THEN Len(bld_story) + 1 ELSE 0])

\* The heading of a group: the label holds arg_name as it is.
GroupHeading ==
    /\ bld_pc = "heading"
    /\ bld_pos[1] <= Len(bld_in)
    /\ bld_story' = Append(bld_story,
            [style |-> "ArgHeading", kind |-> "label", text |-> BldGroup.key,
             count |-> Len(BldGroup.val)])
    /\ bld_trace' = Traced("heading", TRUE, TRUE)
    /\ bld_pos' = <<bld_pos[1], 1, 0>>
    /\ bld_pc' = "source"
    /\ UNCHANGED <<bld_in, extract_vars, main_vars, group_vars, render_vars,
                   rounds_vars, api_vars>>

\* The attribution line of a block.
SourceLine ==
    /\ bld_pc = "source"
    /\ bld_story' = Append(bld_story,
            [style |-> "SrcLine", kind |-> "source",
             text |-> _fmt_source(BldBlock.source).tourn,
             side |-> _fmt_source(BldBlock.source).side])
    /\ bld_trace' = Traced("source", TRUE, TRUE)
    /\ bld_pc' = "line"
    /\ UNCHANGED <<bld_in, bld_pos, extract_vars, main_vars, group_vars, render_vars,
                   rounds_vars, api_vars>>

\* Paragraph(line, style) returns: the line is emitted as its markup.
LineAccepted ==
    /\ bld_pc = "line"
    /\ bld_story' = Append(bld_story,
            [style |-> IF IsTag(BldLine) THEN "CardTag" ELSE "CardBody",
             kind |-> "markup", line |-> BldLine])
    /\ bld_trace' = Traced("line", TRUE, TRUE)
    /\ AfterLine
    /\ UNCHANGED <<bld_in, extract_vars, main_vars, group_vars, render_vars,
                   rounds_vars, api_vars>>

\* The except branch that emits nothing.
LineRejectedDropped ==
    /\ bld_pc = "line"
    /\ bld_story' = bld_story
    /\ bld_trace' = Traced("line", FALSE, FALSE)
    /\ AfterLine
    /\ UNCHANGED <<bld_in, extract_vars, main_vars, group_vars, render_vars,
                   rounds_vars, api_vars>>

\* Paragraph(line, style) raises: the tags are stripped and, "if
\* plain.strip()", the text is escaped and emitted in the body style (a text
\* that holds no tag is taken by the engine).
LineRejected ==
    /\ bld_pc = "line"
    /\ bld_story' =
          IF Strip(PlainOf(BldLine)) # <<>>
          THEN Append(bld_story, [style |-> "CardBody", kind |-> "plain",
                                  text |-> _xml_escape(PlainOf(BldLine))])
          ELSE bld_story
    /\ bld_trace' = Traced("line", FALSE, Strip(PlainOf(BldLine)) # <<>>)
    /\ AfterLine
    /\ UNCHANGED <<bld_in, extract_vars, main_vars, group_vars, render_vars,
                   rounds_vars, api_vars>>

\* After the last group: doc.multiBuild(story).
BuildDone ==
    /\ bld_pc = "heading"
    /\ bld_pos[1] > Len(bld_in)
    /\ bld_pc' = "done"
    /\ UNCHANGED <<bld_in, bld_story, bld_pos, bld_trace, extract_vars, main_vars,
                   group_vars, render_vars, rounds_vars, api_vars>>

BuildNext ==
    \/ GroupHeading
    \/ SourceLine
    \/ LineAccepted
    \/ LineRejected
    \/ BuildDone

SpecBuild == BuildInit /\ [][BuildNext]_vars

\* ------------------------------------------------------- dedup_rounds
TOURNAMENT_FILTER ==
    {<<"Harvard">>, <<"Berkeley">>, <<"Stanford">>, <<"Bellaire">>, <<"Pennsbury">>}

TOURNAMENT_EXCLUDE ==
    { <<"Harvard", SP, "College", SP, "Debating", SP, "Union", SP, "Season", SP, "Opener">>,
      <<"Harvard", SP, "Season", SP, "Opener">>,
      <<"Harvard", SP, "HCDU">> }

\* The name the tests are made on: (rnd.get("tournament") or "").strip().lower()
NameLower(rnd) == Lower(Strip(rnd.tournament))

\* The inclusion filter asked before the exclusion list.
MatchesFilterFirst(rnd) ==
    \/ TOURNAMENT_FILTER = {}
    \/ \E f \in TOURNAMENT_FILTER : IsIn(Lower(f), NameLower(rnd))

\* _matches_tournament(rnd)
_matches_tournament(rnd) ==
    IF \E excl \in TOURNAMENT_EXCLUDE : IsIn(Lower(excl), NameLower(rnd)) THEN FALSE
    ELSE IF TOURNAMENT_FILTER = {} THEN TRUE
    ELSE \E f \in TOURNAMENT_FILTER : IsIn(Lower(f), NameLower(rnd))

\* The file paths and tournament names of the rounds: no path and two
\* paths; a tournament of the filter, one of the exclusion list (in upper
\* case, it holds a name of the filter too), one of neither.
RoundPaths == {<<>>, <<"round", 1>>, <<"round", 2>>}
RoundTournaments ==
    { <<"2025", HY, "Harvard">>,
      <<SP, "HARVARD", SP, "SEASON", SP, "OPENER", SP, "2025">>,
      <<"Yale">> }

\* dedup_rounds is called on at most MaxRounds rounds; id tells rounds of
\* the same path and tournament apart.
RoundsInit ==
    /\ ExtractInit
    /\ MainIdle
    /\ GroupIdle
    /\ RenderIdle
    /\ BuildIdle
    /\ ApiIdle
    /\ \E n \in 0..MaxRounds :
          \E p \in [1..n -> RoundPaths], t \in [1..n -> RoundTournaments] :
              rounds_in = [i \in 1..n |->
                             [opensource |-> p[i], tournament |-> t[i], id |-> i]]
    /\ round_i = 0
    /\ seen = <<>>
    /\ dedup_pc = "loop"

\* path in seen
InSeen(path) == \E k \in 1..Len(seen) : seen[k].opensource = path

\* "if path and path not in seen and _matches_tournament(r)"
Keeps(r) ==
    /\ r.opensource # <<>>
    /\ ~InSeen(r.opensource)
    /\ _matches_tournament(r)

\* The loop keeps the next round: seen[path] = r.
RoundKept ==
    /\ dedup_pc = "loop"
    /\ round_i < Len(rounds_in)
    /\ Keeps(rounds_in[round_i + 1])
    /\ seen' = Append(seen, rounds_in[round_i + 1])
    /\ round_i' = round_i + 1
    /\ UNCHANGED <<rounds_in, dedup_pc, extract_vars, main_vars, group_vars,
                   render_vars, build_vars, api_vars>>

\* The loop passes over the next round.
RoundSkipped ==
    /\ dedup_pc = "loop"
    /\ round_i < Len(rounds_in)
    /\ ~Keeps(rounds_in[round_i + 1])
    /\ round_i' = round_i + 1
    /\ UNCHANGED <<rounds_in, seen, dedup_pc, extract_vars, main_vars, group_vars,
                   render_vars, build_vars, api_vars>>

\* return list(seen.values())
DedupReturn ==
    /\ dedup_pc = "loop"
    /\ round_i = Len(rounds_in)
    /\ dedup_pc' = "done"
    /\ UNCHANGED <<rounds_in, round_i, seen, extract_vars, main_vars, group_vars,
                   render_vars, build_vars, api_vars>>

RoundsNext ==
    \/ RoundKept
    \/ RoundSkipped
    \/ DedupReturn

SpecRounds == RoundsInit /\ [][RoundsNext]_vars

\* ------------------------------------------------------------ api_get
\* What one session.get(url, timeout=15) call can give: no response (the
\* call raises, a timeout or a connection error), status 429, status 404,
\* another error status (raise_for_status raises), status 200 with a body
\* that r.json() cannot parse (it raises), status 200 with a JSON body.
Bodies == {<<"body1">>, <<"body2">>}
Responses ==
    { [status |-> 0, body |-> <<>>],
      [status |-> 429, body |-> <<>>],
      [status |-> 404, body |-> <<>>],
      [status |-> 500, body |-> <<>>],
      [status |-> 200, body |-> <<"not json">>] }
      \cup {[status |-> 200, body |-> b] : b \in Bodies}

\* api_get(url, retries) is called.
ApiInit ==
    /\ ExtractInit
    /\ MainIdle
    /\ GroupIdle
    /\ RenderIdle
    /\ BuildIdle
    /\ RoundsIdle
    /\ api_retries \in 0..MaxRetries
    /\ api_attempt = 0
    /\ api_pc = "loop"
    /\ api_result = None
    /\ api_log = <<>>

\* A turn of "for attempt in range(retries)": the request is made and gives r.
Requested(r) ==
    /\ api_pc = "loop"
    /\ api_attempt < api_retries
    /\ api_log' = Append(api_log, r)
    /\ UNCHANGED <<api_retries, extract_vars, main_vars, group_vars, render_vars,
                   build_vars, rounds_vars>>

\* A 404 taken as one more failed attempt.
Got404Retries(r) ==
    /\ r.status = 404
    /\ Requested(r)
    /\ api_attempt' = api_attempt + 1
    /\ UNCHANGED <<api_pc, api_result>>

\* "if r.status_code == 429: time.sleep(...); continue"
Got429(r) ==
    /\ r.status = 429
    /\ Requested(r)
    /\ api_attempt' = api_attempt + 1
    /\ UNCHANGED <<api_pc, api_result>>

\* "if r.status_code == 404: return None"
Got404(r) ==
    /\ r.status = 404
    /\ Requested(r)
    /\ api_pc' = "returned"
    /\ api_result' = None
    /\ UNCHANGED api_attempt

\* "r.raise_for_status(); return r.json()", neither raises.
GotBody(r) ==
    /\ r.status = 200
    /\ r.body \in Bodies
    /\ Requested(r)
    /\ api_pc' = "returned"
    /\ api_result' = r.body
    /\ UNCHANGED api_attempt

\* session.get, raise_for_status or r.json() raises: "except Exception",
\* a sleep unless this was the last attempt, and the next turn.
Raised(r) ==
    /\ r.status \notin {429, 404}
    /\ ~(r.status = 200 /\ r.body \in Bodies)
    /\ Requested(r)
    /\ api_attempt' = api_attempt + 1
    /\ UNCHANGED <<api_pc, api_result>>

\* The loop is over: "return None".
Exhausted ==
    /\ api_pc = "loop"
    /\ api_attempt >= api_retries
    /\ api_pc' = "returned"
    /\ api_result' = None
    /\ UNCHANGED <<api_retries, api_attempt, api_log, extract_vars, main_vars,
                   group_vars, render_vars, build_vars, rounds_vars>>

ApiNext ==
    \/ \E r \in Responses : Got429(r)
    \/ \E r \in Responses : Got404(r)
    \/ \E r \in Responses : GotBody(r)
    \/ \E r \in Responses : Raised(r)
    \/ Exhausted

\* Every call of session.get returns or raises (timeout=15) and every sleep
\* ends: the loop goes on while it can.
SpecApi == ApiInit /\ [][ApiNext]_vars /\ WF_vars(ApiNext)

\* ------------------------------------------------------------- claims
\* The step reads a paragraph: last_para' is the paragraph read.
Reads == idx' = idx + 1

\* The step reads a heading with non-blank text.
ReadsHeading == Reads /\ last_para'.level # 0 /\ Text(last_para') # <<>>

\* The text matches an explicit block-name prefix.
HasATPrefix(text) == ATPrefixEnd(text) > 0 \/ A2NoColonEnd(text) > 0

\* The step flushes and opens a block under name.
Opens(name) == blocks' = Flushed /\ current_name' = name /\ current_lines' = <<>>

\* The step opens no block: the open block stays or is closed, none is named.
OpensNothing ==
    /\ current_name' \in {None, current_name}
    /\ current_name' = current_name => Len(current_lines') >= Len(current_lines)

\* The step closes nothing and names nothing: the open block keeps its name
\* and its lines (a line may be added), the output is unchanged.
KeepsBlock ==
    /\ blocks' = blocks
    /\ current_name' = current_name
    /\ Len(current_lines') >= Len(current_lines)
    /\ SubSeq(current_lines', 1, Len(current_lines)) = current_lines

\* C1: every block of the output has a non-empty argument name and at least
\* one line, after any sequence of paragraphs (flush appends the open block
\* only when both are non-empty).
C1_BlocksNamedAndNonEmpty ==
    \A i \in 1..Len(blocks) : blocks[i].arg_name # <<>> /\ blocks[i].lines # <<>>

\* A document that ends right after a block-name heading: that block has no
\* line and is discarded, an earlier one was returned.
C1_Witness ==
    /\ pc = "done"
    /\ blocks # <<>>
    /\ last_para.level \in {2, 3}
    /\ TryGetBlockName(Text(last_para)) # None

\* C2: as long as no rebuttal-section or defense-section marker was read (no
\* heading that triggers that transition, no body paragraph that is a
\* rebuttal label alone), the output is empty and no block is open.
C2_NoMarkerNoBlocks ==
    ~sawMarker => blocks = <<>> /\ current_name = None /\ current_lines = <<>>

\* A whole document without marker that ends on a block-name paragraph.
C2_Witness ==
    /\ pc = "done"
    /\ ~sawMarker
    /\ idx = MaxParas
    /\ TryGetBlockName(Text(last_para)) # None

\* C3 as claimed: inside a rebuttal section a heading of ANY level whose text
\* gives an explicit block name flushes and opens a block under that name.
C3_AnyLevel ==
    [][ (ReadsHeading /\ in_rebuttal /\ TryGetBlockName(Text(last_para')) # None)
        => Opens(TryGetBlockName(Text(last_para'))) ]_vars

\* C3 amended: inside a rebuttal section a heading of level 2 or 3 whose text
\* gives an explicit block name flushes the open block and opens a block
\* under the extracted name.
C3_LevelTwoThree ==
    [][ (ReadsHeading /\ in_rebuttal /\ last_para'.level \in {2, 3}
         /\ TryGetBlockName(Text(last_para')) # None)
        => Opens(TryGetBlockName(Text(last_para'))) ]_vars

\* A level-2/3 block-name heading read with a block open: the earlier block is
\* in the output and the new one is open under the name without its prefix.
C3_Witness ==
    /\ pc = "walk"
    /\ in_rebuttal
    /\ last_para.level \in {2, 3}
    /\ current_name = <<"Econ">>
    /\ TryGetBlockName(Text(last_para)) = <<"Econ">>
    /\ current_lines = <<>>
    /\ blocks # <<>>

\* The text matches an explicit block-name prefix and a section-label pattern.
LooksLikeBoth(text) ==
    /\ HasATPrefix(text)
    /\ (DefenseMatch(text) \/ RebuttalMatch(text) \/ ConstructiveMatch(text))

\* C4 as claimed: a heading that looks like a block name and like a section
\* label leaves the mode unchanged and its block is opened in whatever state
\* the extractor is.
C4_OpenedInAnyState ==
    [][ (ReadsHeading /\ LooksLikeBoth(Text(last_para')))
        => /\ in_rebuttal' = in_rebuttal
           /\ in_defense' = in_defense
           /\ TryGetBlockName(Text(last_para')) # None
                 => current_name' = TryGetBlockName(Text(last_para')) ]_vars

\* C4 amended: such a heading never changes the rebuttal/defense mode; its
\* block is opened (after a flush) when the extractor is inside a rebuttal
\* section and the heading is of level 2 or 3, and while OUTSIDE the heading
\* is ignored.
C4_BlockNameNotTransition ==
    [][ (ReadsHeading /\ LooksLikeBoth(Text(last_para')))
        => /\ in_rebuttal' = in_rebuttal
           /\ in_defense' = in_defense
           /\ (in_rebuttal /\ last_para'.level \in {2, 3}
               /\ TryGetBlockName(Text(last_para')) # None)
                 => Opens(TryGetBlockName(Text(last_para')))
           /\ ~in_rebuttal => UNCHANGED <<blocks, current_name, current_lines>> ]_vars

\* "2AC---AT: States" read at level 2 or 3 in defense mode: the mode is still
\* defense and the block States is open.
C4_Witness ==
    /\ last_para.level \in {2, 3}
    /\ LooksLikeBoth(Text(last_para))
    /\ in_rebuttal
    /\ in_defense
    /\ current_name = <<"States">>
    /\ current_lines = <<>>

\* C5: a constructive-section heading, in any state, flushes the open block,
\* leaves the rebuttal section and clears defense mode; from then until the
\* next rebuttal or defense signal no step adds a block to the output, opens
\* a block or adds a line.
C5_ConstructiveLeaves ==
    [][ /\ (ReadsHeading /\ Transition(last_para') = "constructive")
           => /\ blocks' = Flushed
              /\ ~in_rebuttal' /\ ~in_defense'
              /\ current_name' = None /\ current_lines' = <<>>
        /\ (lastSignal = "constructive" /\ lastSignal' = "constructive")
           => /\ blocks' = blocks
              /\ ~in_rebuttal' /\ ~in_defense'
              /\ current_name' = None /\ current_lines' = <<>> ]_vars

\* A block was flushed by a constructive heading and the block-name paragraph
\* read after it opened nothing.
C5_Witness ==
    /\ lastSignal = "constructive"
    /\ blocks # <<>>
    /\ pc = "walk"
    /\ TryGetBlockName(Text(last_para)) # None
    /\ current_name = None

\* C6: a rebuttal-section heading, in any state, flushes the open block and
\* leaves the extractor in a rebuttal section with no open block and defense
\* mode off; a defense-section heading does the same with defense mode on;
\* defense mode is on exactly when the most recent section signal was a
\* defense signal.
C6_RebuttalAndDefense ==
    [][ /\ (ReadsHeading /\ Transition(last_para') = "rebuttal")
           => /\ blocks' = Flushed
              /\ in_rebuttal' /\ ~in_defense'
              /\ current_name' = None /\ current_lines' = <<>>
        /\ (ReadsHeading /\ Transition(last_para') = "defense")
           => /\ blocks' = Flushed
              /\ in_rebuttal' /\ in_defense'
              /\ current_name' = None /\ current_lines' = <<>>
        /\ in_defense' <=> lastSignal' = "defense" ]_vars

\* A rebuttal heading read in defense mode with a block open: the block is in
\* the output and defense mode is off.
C6_Witness ==
    /\ last_para.level # 0
    /\ Transition(last_para) = "rebuttal"
    /\ blocks # <<>>
    /\ blocks[Len(blocks)].arg_name = <<"States">>
    /\ in_rebuttal /\ ~in_defense
    /\ current_name = None

\* The heading is one C7 speaks of: level 2, 3 or 4, no explicit block-name
\* prefix, text left after the trailing junk is stripped.
ImplicitNameHeading(p) ==
    /\ p.level \in {2, 3, 4}
    /\ ~HasATPrefix(Text(p))
    /\ DefenseName(Text(p)) # <<>>

\* C7 as claimed: in defense mode EVERY such heading opens a block under the
\* stripped text; outside defense mode none does.
C7_EveryHeading ==
    [][ (ReadsHeading /\ ImplicitNameHeading(last_para'))
        => IF in_defense THEN Opens(DefenseName(Text(last_para')))
           ELSE OpensNothing ]_vars

\* C7 amended: in defense mode every such heading that is not a section
\* signal flushes the open block and opens a block named by the stripped
\* heading text, whether or not a block was open; outside defense mode such
\* a heading never opens a block.
C7_ImplicitBlockNames ==
    [][ (ReadsHeading /\ ImplicitNameHeading(last_para'))
        => IF in_defense
           THEN Transition(last_para') = "none" => Opens(DefenseName(Text(last_para')))
           ELSE OpensNothing ]_vars

\* "States - Extra" read at level 4 in defense mode with a block open: the
\* block is flushed and the block States is open.
C7_Witness ==
    /\ in_defense
    /\ last_para.level = 4
    /\ ImplicitNameHeading(last_para)
    /\ Transition(last_para) = "none"
    /\ current_name = <<"States">>
    /\ current_lines = <<>>
    /\ blocks # <<>>

\* C8 as claimed: a heading that matches an explicit block-name prefix and
\* reduces to the empty name opens no block and flushes nothing, in every
\* state.
C8_EmptyNameIsGroupLabel ==
    [][ (ReadsHeading /\ HasATPrefix(Text(last_para'))
         /\ TryGetBlockName(Text(last_para')) = None)
        => KeepsBlock ]_vars

\* C9 as claimed: outside defense mode EVERY level-4 heading adds one card-tag
\* line to the open block and closes nothing; with no block open it adds no
\* line.
C9_EveryLevelFour ==
    [][ (ReadsHeading /\ last_para'.level = 4 /\ ~in_defense)
        => IF current_name # None
           THEN /\ current_lines' = Append(current_lines, TagLine(Text(last_para')))
                /\ UNCHANGED <<blocks, current_name>>
           ELSE current_lines' = current_lines /\ blocks' = blocks ]_vars

\* C9 amended: while a block is open and defense mode is off, a level-4
\* heading that is not a section signal appends exactly one card-tag line
\* and does not close the block (name, earlier lines and output unchanged);
\* while no block is open, a level-4 heading outside defense mode adds no line.
C9_CardTag ==
    [][ (ReadsHeading /\ last_para'.level = 4 /\ ~in_defense)
        => IF current_name # None
           THEN Transition(last_para') = "none"
                => /\ current_lines' = Append(current_lines, TagLine(Text(last_para')))
                   /\ UNCHANGED <<blocks, current_name>>
           ELSE current_lines' = current_lines /\ blocks' = blocks ]_vars

\* A card tag added after an earlier line of the open block.
C9_Witness ==
    /\ last_para.level = 4
    /\ Transition(last_para) = "none"
    /\ ~in_defense
    /\ current_name # None
    /\ Len(current_lines) >= 2
    /\ current_lines[Len(current_lines)] = TagLine(Text(last_para))

\* C10: while a block is open, a body paragraph whose text gives a block name
\* flushes and opens a block under that name; any other body paragraph
\* appends exactly one line, its rendering, when the rendering is non-empty,
\* and nothing when it is empty.
C10_BodyParagraph ==
    [][ (Reads /\ last_para'.level = 0 /\ Text(last_para') # <<>> /\ current_name # None)
        => IF TryGetBlockName(Text(last_para')) # None
           THEN Opens(TryGetBlockName(Text(last_para')))
           ELSE IF _para_to_rich(last_para') # <<>>
           THEN /\ current_lines' = Append(current_lines, BodyLine(_para_to_rich(last_para')))
                /\ UNCHANGED <<blocks, current_name>>
           ELSE UNCHANGED <<blocks, current_name, current_lines>> ]_vars

\* The card paragraph was appended to a block that already had a line.
C10_Witness ==
    /\ last_para.level = 0
    /\ current_name # None
    /\ Len(current_lines) >= 2
    /\ _para_to_rich(last_para) # <<>>
    /\ current_lines[Len(current_lines)] = BodyLine(_para_to_rich(last_para))

\* A body paragraph that is a rebuttal-section label alone.
PlainRebuttalAlone(p) == p.level = 0 /\ RebuttalFullMatch(Text(p))

\* A body paragraph that is a constructive-section label alone.
PlainConstructiveAlone(p) ==
    p.level = 0 /\ Len(Text(p)) = 1 /\ ConstructiveMatch(Text(p))

\* C11 as claimed: in every state a body paragraph that is a rebuttal label
\* alone flushes and enters the rebuttal section with defense mode cleared,
\* and one that is a constructive label alone flushes and leaves to OUTSIDE
\* with defense mode cleared, as the heading with that label does.
C11_PlainLabelInEveryState ==
    [][ /\ (Reads /\ PlainRebuttalAlone(last_para'))
           => /\ blocks' = Flushed
              /\ in_rebuttal' /\ ~in_defense'
              /\ current_name' = None /\ current_lines' = <<>>
        /\ (Reads /\ PlainConstructiveAlone(last_para'))
           => /\ blocks' = Flushed
              /\ ~in_rebuttal' /\ ~in_defense'
              /\ current_name' = None /\ current_lines' = <<>> ]_vars

\* OUTSIDE: no block is open, no lines are pending, defense mode is off.
OutsideIsClean ==
    ~in_rebuttal => current_name = None /\ current_lines = <<>> /\ ~in_defense

\* The paragraph is a section signal for an extractor that is OUTSIDE.
SignalWhileOutside(p) ==
    \/ Transition(p) \in {"rebuttal", "defense"}
    \/ PlainRebuttalAlone(p)
    \/ PlainConstructiveAlone(p)

\* C12: in every reachable state, OUTSIDE implies no open block, no pending
\* lines and defense mode off; while OUTSIDE every paragraph that is not a
\* section signal (rebuttal or defense heading, standalone plain rebuttal or
\* constructive label) leaves the extractor state and the output unchanged.
C12_OutsideIgnores ==
    [][ /\ OutsideIsClean
        /\ OutsideIsClean'
        /\ (Reads /\ ~in_rebuttal /\ ~SignalWhileOutside(last_para'))
           => UNCHANGED <<blocks, in_rebuttal, in_defense, current_name,
                          current_lines>> ]_vars

\* A card paragraph read and ignored while OUTSIDE, after a section that
\* produced a block was left.
C12_Witness ==
    /\ pc = "walk"
    /\ ~in_rebuttal
    /\ blocks # <<>>
    /\ lastSignal = "constructive"
    /\ last_para.level = 0
    /\ _para_to_rich(last_para) # <<>>
    /\ TryGetBlockName(Text(last_para)) = None
    /\ ~SignalWhileOutside(last_para)

\* The open block as an output record.
OpenBlock == [arg_name |-> current_name, lines |-> current_lines,
              source |-> source_meta]

\* The open block has a name and at least one line.
OpenBlockCounts == current_name # None /\ current_lines # <<>>

\* The step keeps the open block open: same name, earlier lines kept in
\* order, at most one line added at the end.
StaysOpen ==
    /\ current_name' = current_name
    /\ \/ current_lines' = current_lines
       \/ /\ Len(current_lines') = Len(current_lines) + 1
          /\ SubSeq(current_lines', 1, Len(current_lines)) = current_lines

\* C13: a block with a name and at least one line reaches the output exactly
\* once, at the boundary that ends it (next block, section boundary or end of
\* document); the output only grows at its end, by the block that was open,
\* so blocks come in the order they were opened with their lines in
\* paragraph order; a paragraph adds at most one line, to the open block only.
C13_EveryBlockOnceInOrder ==
    [][ /\ \/ blocks' = blocks
           \/ OpenBlockCounts /\ blocks' = Append(blocks, OpenBlock)
        /\ OpenBlockCounts
           => \/ StaysOpen /\ blocks' = blocks
              \/ current_lines' = <<>> /\ blocks' = Append(blocks, OpenBlock)
        /\ current_lines' # <<>> => StaysOpen
        /\ pc' = "done" => current_name' = None /\ current_lines' = <<>> ]_vars

\* Two blocks in the order they were opened; the second was still open,
\* with its card line, when the document ended.
C13_Witness ==
    /\ pc = "done"
    /\ Len(blocks) = 2
    /\ blocks[1].arg_name = <<"Econ">>
    /\ blocks[2].arg_name = <<"States">>
    /\ last_para.level = 0
    /\ blocks[2].lines = <<BodyLine(_para_to_rich(last_para))>>

\* Every block of the accumulated list comes from a record whose download
\* succeeded, and every record taken and parsed has its blocks in the list.
OnlyDownloadedSources ==
    /\ \A j \in 1..Len(all_blocks) :
          \E i \in 1..Len(fetched) :
             /\ all_blocks[j].source = all_metas[i]
             /\ fetched[i].kind = "docx"
    /\ \A i \in 1..Len(fetched) :
          fetched[i].kind = "docx"
          => Cardinality({j \in 1..Len(all_blocks) : all_blocks[j].source = all_metas[i]})
                = Len(fetched[i].content)

\* C14: in the batch loop a record whose download failed or whose bytes do
\* not parse adds no block and does not stop the loop; when the loop is over
\* every record was taken, every parsed document's blocks are in the list,
\* and every block of the list has a source whose download succeeded.
C14_BadDocumentDoesNotStopBatch ==
    [][ /\ (meta_i' = meta_i + 1 /\ fetched'[meta_i'].kind # "docx")
           => all_blocks' = all_blocks /\ main_pc' = "loop"
        /\ main_pc' # "loop" => Len(fetched') = Len(all_metas')
        /\ OnlyDownloadedSources' ]_vars

\* A failed download, then unparseable bytes, then a document with blocks:
\* the loop reached the end and kept the third record's blocks.
C14_Witness ==
    /\ main_pc = "split"
    /\ Len(fetched) = 3
    /\ fetched[1].kind = "none"
    /\ fetched[2].kind = "bad"
    /\ fetched[3].kind = "docx"
    /\ Len(all_blocks) = 2
    /\ all_blocks[1].source = all_metas[3]

\* The step-wise run and the function agree.
GroupedIsTheFunction ==
    grp_pc \in {"done", "shuffled", "regrouped"} => grouped = group_by_argument(grp_in)

\* The elements of a sequence.
Range(q) == {q[i] : i \in 1..Len(q)}

\* What the deduplication compares: source file path, argument name and the
\* text of the lines (all of it, the lines here being shorter than the prefix).
Fingerprint(b) == <<b.source.opensource, b.arg_name, b.lines>>

\* C15 as claimed: in the mapping returned by group_by_argument no group
\* holds two blocks with equal fingerprint.
C15_NoEqualFingerprints ==
    grp_pc = "done"
    => \A g \in 1..Len(grouped) :
          \A i, j \in 1..Len(grouped[g].val) :
             i < j => Fingerprint(grouped[g].val[i]) # Fingerprint(grouped[g].val[j])

\* The argument names of the input.
NamesIn(bs) == {bs[i].arg_name : i \in 1..Len(bs)}

\* All blocks of the input with one of the names are in one group of g.
InOneGroup(g, bs, names) ==
    \E k \in 1..Len(g) :
       \A i \in 1..Len(bs) : bs[i].arg_name \in names => bs[i] \in Range(g[k].val)

\* C16 as claimed: any two argument names of the input of which one,
\* normalized, is a substring of the other have all their blocks in the same
\* group of the returned mapping.
C16_RelatedNamesShareGroup ==
    grp_pc = "done"
    => \A a, b \in NamesIn(grp_in) :
          Related(a, b) => InOneGroup(grouped, grp_in, {a, b})

\* The groups of a mapping: canonical name and set of member blocks.
Partition(g) == {<<g[k].key, Range(g[k].val)>> : k \in 1..Len(g)}

\* C17 as claimed: the mapping returned for a shuffled input has the same
\* (canonical name, set of member blocks) pairs as the one returned for the
\* input.
C17_OrderIndependent ==
    grp_pc = "shuffled" => Partition(alt_out) = Partition(grouped)

\* C18 as claimed: group_by_argument applied to the blocks of a returned
\* mapping, concatenated in group order, returns the same groups with the
\* same members.
C18_Idempotent ==
    grp_pc = "regrouped" => Partition(alt_out) = Partition(grouped)

\* The canonical table has an entry of that name with those blocks.
HasEntry(c, key, val) == \E k \in 1..Len(c) : c[k].key = key /\ c[k].val = val

\* The canonical table has an entry of that name.
HasKey(c, key) == \E k \in 1..Len(c) : c[k].key = key

\* C19: when a bucket is merged with a canonical entry, the merged group has
\* the bucket's name exactly when the bucket has more blocks than the entry
\* had, and the entry's name otherwise (ties included); either way it holds
\* the entry's blocks followed by the bucket's.
C19_LargerBucketRenames ==
    [][ (key_i' = key_i + 1 /\ last_merge'.kind = "merge")
        => IF Len(last_merge'.bucket) > Len(last_merge'.had)
           THEN /\ HasEntry(canonical', last_merge'.key,
                            last_merge'.had \o last_merge'.bucket)
                /\ ~HasKey(canonical', last_merge'.ckey)
           ELSE /\ HasEntry(canonical', last_merge'.ckey,
                            last_merge'.had \o last_merge'.bucket)
                /\ ~HasKey(canonical', last_merge'.key) ]_vars

\* A bucket of two blocks met an entry of one and gave it its name.
C19_Witness ==
    /\ grp_pc = "place"
    /\ last_merge.kind = "merge"
    /\ Len(last_merge.bucket) = 2
    /\ Len(last_merge.had) = 1
    /\ HasEntry(canonical, last_merge.key, last_merge.had \o last_merge.bucket)

\* The place of a name in the canonical table.
PlaceOf(c, key) == CHOOSE k \in 1..Len(c) : c[k].key = key

\* C20: the returned mapping lists the groups of the canonical table in
\* non-increasing order of block count, and groups of equal count in the
\* order in which they were inserted into the table.
C20_SortedBySizeStable ==
    grp_pc = "done"
    => /\ Len(grouped) = Len(canonical)
       /\ Range(grouped) = Range(canonical)
       /\ \A i, j \in 1..Len(grouped) :
             i < j
             => /\ Len(grouped[i].val) >= Len(grouped[j].val)
                /\ Len(grouped[i].val) = Len(grouped[j].val)
                   => PlaceOf(canonical, grouped[i].key) < PlaceOf(canonical, grouped[j].key)

\* The group inserted second is the larger one and is returned first.
C20_Witness ==
    /\ grp_pc = "done"
    /\ Len(grouped) = 2
    /\ grouped # canonical
    /\ grouped[1] = canonical[2]

\* Number of times blk occurs in the list bs.
Cnt(blk, bs) == Cardinality({k \in 1..Len(bs) : bs[k] = blk})

\* The split by side has been made.
SplitMade == main_pc \in {"build", "built"}

\* C21: the split by side drops no block: a block of an affirmative round is
\* in the first list only, a block of a negative round in the second only, a
\* block whose side is neither (empty, missing) in both, each as often as in
\* all_blocks; the count printed is the number of blocks of unknown side.
C21_SplitDropsNoBlock ==
    SplitMade =>
        /\ \A i \in 1..Len(all_blocks) :
              LET blk == all_blocks[i]
                  n == Cnt(blk, all_blocks)
              IN CASE SideOf(blk) = "A" ->
                        Cnt(blk, aff_blocks) = n /\ Cnt(blk, neg_blocks) = 0
                   [] SideOf(blk) = "N" ->
                        Cnt(blk, neg_blocks) = n /\ Cnt(blk, aff_blocks) = 0
                   [] OTHER ->
                        Cnt(blk, aff_blocks) = n /\ Cnt(blk, neg_blocks) = n
        /\ Len(unk_blocks)
              = Cardinality({i \in 1..Len(all_blocks) :
                               all_blocks[i].source.side \notin {"A", "a", "N", "n"}})
        /\ Len(aff_blocks) + Len(neg_blocks) = Len(all_blocks) + Len(unk_blocks)

\* The split was made of blocks of an affirmative round, of a negative round
\* and of a round with an empty side.
C21_Witness ==
    /\ SplitMade
    /\ \E i, j, k \in 1..Len(all_blocks) :
          /\ all_blocks[i].source.side = "A"
          /\ all_blocks[j].source.side = "n"
          /\ all_blocks[k].source.side = ""
    /\ Len(unk_blocks) > 0

LenUpTo(xs, n) ==
    LET f[i \in 0..n] == IF i = 0 THEN 0 ELSE f[i - 1] + Len(xs[i].text)
    IN f[n]

\* The texts of the items of xs, joined.
TextOf(xs) ==
    LET f[i \in 0..Len(xs)] == IF i = 0 THEN <<>> ELSE f[i - 1] \o xs[i].text
    IN f[Len(xs)]

\* The run that holds the character at position pos.
RunAt(runs, pos) ==
    CHOOSE i \in 1..Len(runs) : LenUpTo(runs, i - 1) < pos /\ pos <= LenUpTo(runs, i)

\* Blanks before the citation tag of the rendered paragraph, and the position
\* of the tag's last character (0: the paragraph starts with no tag).
TagLead == Len(rnd_para.text) - Len(LStrip(rnd_para.text))
TagLast ==
    IF CiteEnd(LStrip(rnd_para.text)) > 0
    THEN TagLead + CiteEnd(LStrip(rnd_para.text))
    ELSE 0

\* First and last character of fragment k, and the run its first character
\* is of.
FragFirst(k) == LenUpTo(rnd_rich, k - 1) + 1
FragLast(k) == LenUpTo(rnd_rich, k)
FragRun(k) == rnd_para.runs[RunAt(rnd_para.runs, FragFirst(k))]

\* The tier a fragment is rendered in: filler by its size, read when bold and
\* underlined, context when underlined only.
RenderedTier(frag) ==
    IF frag.size = SZ_FILLER THEN "filler"
    ELSE IF frag.bold /\ frag.underline /\ frag.size = SZ_READ THEN "read"
    ELSE IF frag.underline /\ frag.size = SZ_CONTEXT THEN "context"
    ELSE "none"

\* The tier of a run by the rule: highlight first, then bold and underline.
RuleTier(run) ==
    IF HighlightBg(run.hl) # "None" THEN "read"
    ELSE IF run.bold = "True" /\ run.underline = "True" THEN "read"
    ELSE IF run.underline = "True" THEN "context"
    ELSE "filler"

\* C22: for every combination of bold, underline and highlight of a run, the
\* fragment rendered for it (outside a citation tag) is in the READ tier,
\* bold and underlined, when the run is highlighted; else READ when bold and
\* underlined; else CONTEXT when underlined; else FILLER; and that is the
\* tier the classifier gives the run.
C22_TierRule ==
    rnd_pc = "done" =>
        \A k \in 1..Len(rnd_rich) :
            FragFirst(k) > TagLast =>
                /\ RenderedTier(rnd_rich[k]) = RuleTier(FragRun(k))
                /\ _run_tier(FragRun(k)) = RuleTier(FragRun(k))

\* C23: the paragraph starts with a citation tag: the fragments' texts joined
\* are the runs' texts joined (escaped); no fragment holds characters of the
\* tag and characters after it; a fragment of the tag is bold at size 11; a
\* fragment after the tag is of one run and has that run's bold, underline
\* and highlight.
C23_CitationSplit ==
    rnd_pc = "done" /\ TagLast > 0 =>
        /\ TextOf(rnd_rich) = _xml_escape(TextOf(rnd_para.runs))
        /\ \A k \in 1..Len(rnd_rich) :
              /\ rnd_rich[k].text # <<>>
              /\ FragFirst(k) <= TagLast => FragLast(k) <= TagLast
              /\ FragFirst(k) <= TagLast /\ FragLast(k) > TagLead =>
                    rnd_rich[k].bold /\ rnd_rich[k].size = SZ_READ
              /\ FragFirst(k) > TagLast =>
                    /\ RunAt(rnd_para.runs, FragFirst(k)) = RunAt(rnd_para.runs, FragLast(k))
                    /\ rnd_rich[k].bold = (FragRun(k).bold = "True")
                    /\ rnd_rich[k].underline = (FragRun(k).underline = "True")
                    /\ rnd_rich[k].bg = HighlightBg(FragRun(k).hl)

\* A run that is neither bold nor underlined straddles the end of the tag
\* and was split there: a bold fragment ends at the tag's end and a plain
\* one starts after it, both of the same run.
C23_Witness ==
    /\ rnd_pc = "done"
    /\ TagLast > 0
    /\ TagLead > 0
    /\ \E k \in 1..(Len(rnd_rich) - 1) :
          /\ FragLast(k) = TagLast
          /\ RunAt(rnd_para.runs, FragLast(k)) = RunAt(rnd_para.runs, FragFirst(k + 1))
          /\ rnd_rich[k].bold
          /\ ~rnd_rich[k + 1].bold
          /\ FragRun(k + 1).bold = "None"

\* C24: a run's bold or underline that is unset on the run itself is taken
\* from the paragraph's style, not as false.
C24_UnsetIsInherited ==
    rnd_pc = "done" =>
        \A k \in 1..Len(rnd_rich) :
            FragFirst(k) > TagLast =>
                /\ FragRun(k).bold = "None" => rnd_rich[k].bold = rnd_para.style.bold
                /\ FragRun(k).underline = "None" =>
                      rnd_rich[k].underline = rnd_para.style.underline

\* The steps of build_pdf that handled a line, and the line of a step.
LineSteps == {i \in 1..Len(bld_trace) : bld_trace[i].kind = "line"}
LineOf(e) == bld_in[e.pos[1]].val[e.pos[2]].lines[e.pos[3] + 1]

\* The paragraph of step e is the line's markup, in the tag or body style.
IsMarkupOf(e) ==
    /\ e.at > 0
    /\ bld_story[e.at] = [style |-> IF LineOf(e).kind = "tag" THEN "CardTag" ELSE "CardBody",
                          kind |-> "markup", line |-> LineOf(e)]

\* The paragraph of step e is the line's text, stripped of its markup and
\* escaped, in the body style.
IsPlainOf(e) ==
    /\ e.at > 0
    /\ bld_story[e.at] = [style |-> "CardBody", kind |-> "plain",
                          text |-> _xml_escape(PlainOf(LineOf(e)))]

\* The paragraphs of lines in the story are those of the line steps, one
\* each; after the build every line of every block has had its step.
LineParagraphsAreSteps ==
    /\ \A i, j \in LineSteps :
          i # j /\ bld_trace[i].at > 0 => bld_trace[i].at # bld_trace[j].at
    /\ Cardinality({k \in 1..Len(bld_story) : bld_story[k].kind \in {"markup", "plain"}})
         = Cardinality({i \in LineSteps : bld_trace[i].at > 0})
    /\ bld_pc = "done" =>
          \A g \in 1..Len(bld_in) : \A b \in 1..Len(bld_in[g].val) :
              \A l \in 1..Len(bld_in[g].val[b].lines) :
                  Cardinality({i \in LineSteps : bld_trace[i].pos = <<g, b, l - 1>>}) = 1

\* C25 as stated: every line of every block gives exactly one paragraph, its
\* markup when the engine takes it, else its text stripped and escaped; a
\* rejected line is never dropped and the build goes on.
C25_OneParagraphPerLine ==
    /\ \A i \in LineSteps :
          IF bld_trace[i].accepted THEN IsMarkupOf(bld_trace[i])
          ELSE IsPlainOf(bld_trace[i])
    /\ LineParagraphsAreSteps

\* C25, amended: every line gives its markup when the engine takes it; a
\* rejected line whose text is not blank gives one paragraph of its text,
\* stripped and escaped; a rejected line whose text is blank gives none; the
\* build goes on after a rejection until every line has been handled.
C25_OneParagraphPerTextLine ==
    /\ \A i \in LineSteps :
          IF bld_trace[i].accepted THEN IsMarkupOf(bld_trace[i])
          ELSE IF Strip(PlainOf(LineOf(bld_trace[i]))) # <<>> THEN IsPlainOf(bld_trace[i])
          ELSE bld_trace[i].at = 0
    /\ LineParagraphsAreSteps

\* The build is over; a line that holds "&" was rejected and emitted as
\* text, and a later line was taken as markup.
C25_Witness ==
    /\ bld_pc = "done"
    /\ \E i, j \in LineSteps :
          /\ i < j
          /\ ~bld_trace[i].accepted
          /\ bld_trace[i].at > 0
          /\ \E k \in 1..Len(PlainOf(LineOf(bld_trace[i]))) :
                PlainOf(LineOf(bld_trace[i]))[k] = "&amp;"
          /\ bld_trace[j].accepted

\* The literal text a paragraph of the story holds.
LiteralOf(p) == IF p.kind = "markup" THEN PlainOf(p.line) ELSE p.text

\* No character of the text is a markup character left as it is, and none
\* was escaped twice.
EscapedOnce(text) ==
    \A k \in 1..Len(text) :
        text[k] \notin {"&", "<", ">", "\"",
                        "&amp;amp;", "&amp;lt;", "&amp;gt;", "&amp;quot;"}

\* C26: the literal text of every paragraph handed to the engine (run text,
\* card tag, argument name of a group heading, source metadata) has its
\* markup characters escaped, once.
C26_LiteralTextEscapedOnce ==
    \A k \in 1..Len(bld_story) : EscapedOnce(LiteralOf(bld_story[k]))

\* The tournament name of the round holds an entry of the exclusion list,
\* or of the inclusion filter, whatever the case of its letters.
Excluded(r) == \E e \in TOURNAMENT_EXCLUDE : IsIn(Lower(e), Lower(r.tournament))
Included(r) ==
    TOURNAMENT_FILTER = {} \/ \E f \in TOURNAMENT_FILTER : IsIn(Lower(f), Lower(r.tournament))

\* Round i is the first of its file path that the filter lets through.
FirstOfPath(i) ==
    /\ rounds_in[i].opensource # <<>>
    /\ Included(rounds_in[i]) /\ ~Excluded(rounds_in[i])
    /\ \A j \in 1..(i - 1) :
          rounds_in[j].opensource = rounds_in[i].opensource =>
              ~Included(rounds_in[j]) \/ Excluded(rounds_in[j])

\* C27: dedup_rounds returns no round of an excluded tournament, even one
\* that the inclusion filter matches; every round returned has a file path
\* and matches the filter; no path is returned twice; the round returned for
\* a path is the first of the path that the filter lets through.
C27_DedupRounds ==
    dedup_pc = "done" =>
        /\ \A k \in 1..Len(seen) :
              /\ ~Excluded(seen[k])
              /\ seen[k].opensource # <<>>
              /\ Included(seen[k])
        /\ \A k, l \in 1..Len(seen) : k # l => seen[k].opensource # seen[l].opensource
        /\ \A i \in 1..Len(rounds_in) :
              FirstOfPath(i) <=> \E k \in 1..Len(seen) : seen[k] = rounds_in[i]

\* A round of an excluded tournament that the filter matches came first for
\* a path and was passed over; a later round of that path was returned, and
\* a third round of the path was not.
C27_Witness ==
    /\ dedup_pc = "done"
    /\ \E i, j, l \in 1..Len(rounds_in) :
          /\ i < j /\ j < l
          /\ rounds_in[i].opensource = rounds_in[j].opensource
          /\ rounds_in[l].opensource = rounds_in[j].opensource
          /\ Excluded(rounds_in[i]) /\ Included(rounds_in[i])
          /\ Included(rounds_in[l]) /\ ~Excluded(rounds_in[l])
          /\ seen = <<rounds_in[j]>>

\* C28: while a block is open, a heading that is neither a section signal
\* nor a block name in the current mode (a level-2 or level-3 heading that
\* names no block, outside defense mode; any heading of level 1, 5 or 6)
\* leaves the open block's name and lines, the mode flags and the output as
\* they are, so the body paragraphs that follow are still added to the block.
C28_OtherHeadingKeepsBlock ==
    [][ ( /\ ReadsHeading
          /\ current_name # None
          /\ Transition(last_para') = "none"
          /\ \/ /\ last_para'.level \in {2, 3}
                /\ ~in_defense
                /\ TryGetBlockName(Text(last_para')) = None
             \/ last_para'.level \in {1, 5, 6} )
        => UNCHANGED <<blocks, in_rebuttal, in_defense, current_name,
                       current_lines>> ]_vars

\* A level-5 heading was read in defense mode, where at level 2 to 4 it
\* would name a block: the block open before it still has its name and lines.
C28_Witness ==
    /\ last_para.level = 5
    /\ in_defense
    /\ current_name # None
    /\ current_lines # <<>>
    /\ idx < MaxParas

\* Number of times blk occurs in the groups of the mapping g.
CntIn(blk, g) ==
    Cardinality(UNION { { <<k, i>> : i \in {i \in 1..Len(g[k].val) : g[k].val[i] = blk} } :
                        k \in 1..Len(g) })

\* The names the second loop has placed.
PlacedKeys == {keys[q] : q \in 1..key_i}

\* C29: group_by_argument loses, duplicates and invents no block: every
\* input block is in the groups returned as often as in the input (a block
\* given once is in exactly one group, once), and every block of a group is
\* an input block; so it is after every turn of the merging loop, a turn
\* that renames an entry included.
C29_NoBlockLostOrInvented ==
    /\ grp_pc = "place" =>
          /\ \A i \in 1..Len(grp_in) :
                CntIn(grp_in[i], canonical)
                  = IF grp_in[i].arg_name \in PlacedKeys THEN Cnt(grp_in[i], grp_in) ELSE 0
          /\ \A k \in 1..Len(canonical) : \A i \in 1..Len(canonical[k].val) :
                \E j \in 1..Len(grp_in) : grp_in[j] = canonical[k].val[i]
    /\ grp_pc \in {"done", "shuffled", "regrouped"} =>
          /\ \A i \in 1..Len(grp_in) : CntIn(grp_in[i], grouped) = Cnt(grp_in[i], grp_in)
          /\ \A k \in 1..Len(grouped) : \A i \in 1..Len(grouped[k].val) :
                \E j \in 1..Len(grp_in) : grp_in[j] = grouped[k].val[i]

\* The last merge renamed its entry (the name met is gone, the bucket's name
\* has blocks of both) and the input held a block twice.
C29_Witness ==
    /\ grp_pc = "done"
    /\ last_merge.kind = "merge"
    /\ Len(last_merge.bucket) > Len(last_merge.had)
    /\ \A k \in 1..Len(grouped) : grouped[k].key # last_merge.ckey
    /\ \E k \in 1..Len(grouped) :
          /\ grouped[k].key = last_merge.key
          /\ grouped[k].val = last_merge.had \o last_merge.bucket
    /\ \E i, j \in 1..Len(grp_in) : i < j /\ grp_in[i] = grp_in[j]

\* The request gave a parsed body; it gave something api_get tries again
\* after (a 429, or an exception of the call, of the status or of the parse).
IsSuccess(r) == r.status = 200 /\ r.body \in Bodies
IsRetried(r) == r.status # 404 /\ ~IsSuccess(r)

\* What api_get has done so far is what it should: at most retries requests;
\* every request before the last was one to try again after; while the loop
\* runs so was the last; after the return the result is the body of the
\* last, successful, request, or None after a 404 or after retries requests
\* none of which ended the call.
ApiGetAsItShould ==
    /\ Len(api_log) <= api_retries
    /\ \A i \in 1..(Len(api_log) - 1) : IsRetried(api_log[i])
    /\ api_pc = "loop" =>
          /\ \A i \in 1..Len(api_log) : IsRetried(api_log[i])
          /\ api_attempt = Len(api_log)
    /\ api_pc = "returned" =>
          \/ /\ api_log # <<>>
             /\ IsSuccess(api_log[Len(api_log)])
             /\ api_result = api_log[Len(api_log)].body
          \/ /\ api_log # <<>>
             /\ api_log[Len(api_log)].status = 404
             /\ api_result = None
          \/ /\ Len(api_log) = api_retries
             /\ \A i \in 1..Len(api_log) : IsRetried(api_log[i])
             /\ api_result = None

\* C31: api_get ends after at most retries requests whatever the responses
\* are: None at the first 404 with no further request, the parsed body of
\* the first successful response, another attempt after a 429 or an
\* exception, None when the attempts are used up.
C31_ApiGetTerminates ==
    /\ [](api_pc \in {"loop", "returned"} => ApiGetAsItShould)
    /\ <>(api_pc = "returned")

\* A 429, then an exception, then a body, which was returned.
C31_Witness ==
    /\ api_pc = "returned"
    /\ Len(api_log) = 3
    /\ api_log[1].status = 429
    /\ api_log[2].status = 0
    /\ api_result = <<"body2">>
    /\ api_log[3].body = <<"body2">>
====
